---- MODULE Spec2Model ----
(***************************************************************************)
(* A model of nostrust: event identity (canonical hash, Schnorr signing    *)
(* and verification), key pairs, and the NIP-19 bech32/TLV codec.          *)
(*                                                                         *)
(* Rust String, &str, Vec<u8> and [u8; N] are sequences of bytes   *)
(* (0..255); a String is its UTF-8 bytes.  Option<T> is a sequence of  *)
(* length 0 (None) or 1 (Some).  Result<T, E> is a record with the field *)
(* ok, and val (Ok) or err and inner (Err).  A panic (unwrap on an Err,    *)
(* arithmetic overflow with overflow checks on) is the result Panic(..).   *)
(*                                                                         *)
(* The cryptographic primitives of the secp256k1 and bitcoin_hashes crates *)
(* are idealised: SHA-256 is a collision-free map into 32 bytes, the curve *)
(* is a cyclic group of small order whose points are named by their        *)
(* discrete logarithm, and a Schnorr signature is a nonce commitment       *)
(* followed by a tag binding nonce, public key and message.                *)
(***************************************************************************)
EXTENDS Integers, Sequences, FiniteSets, TLC

VARIABLES
    pair,             \* key::Pair in use (event and key operations)
    event,            \* <<>> or <<e>>: the event::Event under consideration
    signed,           \* <<>> or <<e>>: the event as Event::new returned it
    outcome,          \* <<>> or <<r>>: what the last Event::verify returned
    previous,         \* <<>> or <<r>>: what the Event::verify call before that returned
    ioerr,            \* <<>> or <<io>>: io::Error converted from outcome
    msg,              \* data handed to Pair::sign
    sig,              \* <<>> or <<r>>: what Pair::sign returned
    vargs,            \* <<>> or <<[sig, data, pk]>>: arguments of Pair::verify
    verdict,          \* <<>> or <<r>>: what Pair::verify returned
    shared,           \* <<>> or <<[ours, theirs, pair]>>: a call of Pair::new_shared_secret
    sealed,           \* <<>> or <<[key, iv, msg, out]>>: a call of encrypt256
    opened,           \* <<>> or <<r>>: what decrypt256 returned
    overflow_checks,  \* build profile: TRUE = debug (overflow panics)
    record,           \* <<>> or <<r>>: the Profile / nevent Event / key encoded
    text,             \* the bech32 string handed to from_bech32
    payload,          \* <<>> or <<bytes>>: the raw payload text was built from
    decoded,          \* <<>> or <<r>>: what from_bech32 returned
    json,             \* <<>> or <<text>>: the JSON text written or received
    plain,            \* <<>> or <<text>>: a received text without its members of other names
    parsed,           \* <<>> or <<r>>: what serde_json::from_str returned
    sent,             \* <<>> or <<[enum, val, topic]>>: the Request or message a text was made of
    op                \* name of the last operation

vars == <<pair, event, signed, outcome, previous, ioerr, msg, sig, vargs, verdict,
          shared, sealed, opened,
          overflow_checks, record, text, payload, decoded, json, plain, parsed, sent, op>>

eventVars == <<event, signed, outcome, previous, ioerr>>
keyVars == <<msg, sig, vargs, verdict, shared, sealed, opened>>
codecVars == <<overflow_checks, record, text, payload, decoded>>
jsonVars == <<json, plain, parsed, sent>>

----------------------------------------------------------------------------
(* Program constants *)

KEY_SIZE == 32
SPECIAL_TYPE == 0
EVENT_SIZE == 32
RELAY_TYPE == 1
PUBKEY_SIZE == 32

(* secp256k1::constants: a message and a hash are 32 bytes, a Schnorr
   signature 64. *)
MESSAGE_SIZE == 32
SCHNORR_SIGNATURE_SIZE == 64

(* The order of the curve group, scaled down to a small prime. *)
Order == 13

(* Bounds of the model *)
MaxScalar == 2    \* secret keys are the scalars 1..MaxScalar
MaxAux == 2       \* auxiliary randomness of sign_schnorr: 1..MaxAux
MaxRelays == 2    \* relays of a Profile or an nevent Event
MaxChunks == 2    \* TLV entries of a payload built elsewhere

----------------------------------------------------------------------------
(* Results and options *)

None == <<>>
Some(x) == <<x>>
IsSome(o) == Len(o) = 1
Get(o) == o[1]

Ok(v) == [ok |-> TRUE, val |-> v, err |-> "", inner |-> ""]
Err(kind, why) == [ok |-> FALSE, val |-> <<>>, err |-> kind, inner |-> why]
Panic(why) == [ok |-> FALSE, val |-> <<>>, err |-> "panic", inner |-> why]
Unit == <<>>

Min(a, b) == IF a < b THEN a ELSE b

(* iter.take(n).collect() and the rest of a slice *)
Take(s, n) == SubSeq(s, 1, Min(n, Len(s)))
Drop(s, n) == IF n >= Len(s) THEN <<>> ELSE SubSeq(s, n + 1, Len(s))

RECURSIVE Concat(_)
Concat(ss) ==
    IF Len(ss) = 0 THEN <<>>
    ELSE IF Len(ss) = 1 THEN ss[1]
    ELSE LET half == Len(ss) \div 2
         IN  Concat(SubSeq(ss, 1, half)) \o Concat(SubSeq(ss, half + 1, Len(ss)))

----------------------------------------------------------------------------
(* Hex: secp256k1::hashes::hex and the Display / FromStr of keys *)

HexDigits == <<48, 49, 50, 51, 52, 53, 54, 55, 56, 57, 97, 98, 99, 100, 101, 102>>

to_hex(bytes) ==
    [i \in 1..(2 * Len(bytes)) |->
        LET b == bytes[(i + 1) \div 2]
        IN  IF i % 2 = 1 THEN HexDigits[(b \div 16) + 1]
                         ELSE HexDigits[(b % 16) + 1]]

HexVal(c) ==
    IF c \in 48..57 THEN c - 48
    ELSE IF c \in 97..102 THEN c - 87
    ELSE IF c \in 65..70 THEN c - 55
    ELSE -1

(* Vec::<u8>::from_hex *)
from_hex(s) ==
    IF Len(s) % 2 = 1 THEN Err("Hex", "OddLengthString")
    ELSE IF \E i \in 1..Len(s) : HexVal(s[i]) < 0 THEN Err("Hex", "InvalidChar")
    ELSE Ok([i \in 1..(Len(s) \div 2) |->
                16 * HexVal(s[2 * i - 1]) + HexVal(s[2 * i])])

----------------------------------------------------------------------------
(* The curve (secp256k1::SECP256K1), idealised.  A point k*G is named by k
   in 1..Order-1; k*G and (Order-k)*G are negatives of each other and share
   the x coordinate; the one with k <= (Order-1)/2 has the even y.  XOf is
   injective on these classes and never 0, so 32 zero bytes are no public
   key, as on the real curve. *)

XOf(k) == (3 * Min(k, Order - k)) % Order

ValidX == {XOf(k) : k \in 1..(Order - 1)}

(* Big-endian 32 bytes of a small number, and back; a value with one of the
   high 31 bytes set is 256 or more, hence out of the range of the curve. *)
be_bytes(v) == [i \in 1..KEY_SIZE |-> IF i = KEY_SIZE THEN v ELSE 0]

be_value(b) == IF \A i \in 1..(KEY_SIZE - 1) : b[i] = 0 THEN b[KEY_SIZE] ELSE 256

(* ec::SecretKey::from_slice / secret_bytes: a scalar 0 < d < Order *)
SecretKey_try_from(value) ==
    IF Len(value) # KEY_SIZE THEN Err("Key", "InvalidSecretKey")
    ELSE IF be_value(value) \in 1..(Order - 1) THEN Ok([d |-> be_value(value)])
    ELSE Err("Key", "InvalidSecretKey")

secret_bytes(sk) == be_bytes(sk.d)

(* ec::XOnlyPublicKey::from_slice: 32 bytes that are the x of a point *)
PublicKey_try_from(value) ==
    IF Len(value) # KEY_SIZE THEN Err("Key", "InvalidPublicKey")
    ELSE IF be_value(value) \in ValidX THEN Ok([x |-> be_value(value)])
    ELSE Err("Key", "InvalidPublicKey")

PublicKey_serialize(pk) == be_bytes(pk.x)

PublicKey_to_string(pk) == to_hex(PublicKey_serialize(pk))

(* ec::XOnlyPublicKey::from_str: exactly 64 hex digits, then from_slice *)
PublicKey_from_str(value) ==
    LET h == from_hex(value)
    IN  IF h.ok /\ Len(value) = 2 * KEY_SIZE THEN PublicKey_try_from(h.val)
        ELSE Err("Key", "InvalidPublicKey")

(* sk.x_only_public_key(curve) *)
x_only_public_key(sk) == [x |-> XOf(sk.d)]

(* impl From<&SecretKey> for Pair; Pair::generate draws the secret at random *)
Pair_from_secret(sk) == [secret_key |-> Some(sk), public_key |-> x_only_public_key(sk)]

(* impl From<&PublicKey> for Pair *)
Pair_from_public(pk) == [secret_key |-> None, public_key |-> pk]

(* The y coordinate of the point k*G: even for k <= (Order-1)/2, odd for
   its negative, and different for any two points. *)
YOf(k) == IF 2 * k < Order THEN 2 * k ELSE 2 * (Order - k) - 1

(* XOnlyPublicKey::public_key(parity): the point of this x whose y has the
   parity, named by its k *)
public_key_of(pk, parity) ==
    CHOOSE k \in 1..(Order - 1) :
        XOf(k) = pk.x /\ (YOf(k) % 2 = 0 <=> parity = "Even")

(* ec::ecdh::shared_secret_point(&pk, &sk): the 64 bytes x || y of sk * pk *)
shared_secret_point(k, sk) ==
    be_bytes(XOf((sk.d * k) % Order)) \o be_bytes(YOf((sk.d * k) % Order))

(* Mutant of Pair_new_shared_secret: the secret is the y of the shared
   point. *)
Pair_new_shared_secret_y(ours, theirs) ==
    LET secret == shared_secret_point(public_key_of(theirs, "Even"), ours)
        shared_sk == SecretKey_try_from(SubSeq(secret, KEY_SIZE + 1, 2 * KEY_SIZE))
    IN  IF ~shared_sk.ok THEN Panic("unwrap on Err") ELSE Ok(Pair_from_secret(shared_sk.val))

(* Pair::new_shared_secret; the x of a point of the model is in the range
   of the secret keys, as all but a fraction of 2^-128 of the x of the
   curve are *)
Pair_new_shared_secret(ours, theirs) ==
    LET secret == shared_secret_point(public_key_of(theirs, "Even"), ours)
        shared_sk == SecretKey_try_from(SubSeq(secret, 1, KEY_SIZE))
    IN  IF ~shared_sk.ok THEN Panic("unwrap on Err") ELSE Ok(Pair_from_secret(shared_sk.val))

SecretKeys == {[d |-> d] : d \in 1..MaxScalar}

PublicKeys == {x_only_public_key(sk) : sk \in SecretKeys}

Pairs == {Pair_from_secret(sk) : sk \in SecretKeys} \cup {Pair_from_public(pk) : pk \in PublicKeys}

----------------------------------------------------------------------------
(* Schnorr signatures (secp256k1::schnorr), idealised: R || s, where R is
   the x of the nonce point and s binds R, the public key and the message;
   it is a bijection of each of the three with the other two fixed.
   sign_schnorr draws the nonce from the thread's random generator. *)

Bind(R, P, m) == [i \in 1..KEY_SIZE |-> (R[i] + P[i] + m[i]) % 256]

sign_schnorr(sk, m, aux) ==
    LET R == be_bytes(XOf(aux))
    IN  R \o Bind(R, PublicKey_serialize(x_only_public_key(sk)), m)

(* the first half must be the x of a point, the second the tag *)
verify_schnorr(signature, message, pubkey) ==
    /\ be_value(SubSeq(signature, 1, KEY_SIZE)) \in ValidX
    /\ SubSeq(signature, KEY_SIZE + 1, SCHNORR_SIGNATURE_SIZE)
          = Bind(SubSeq(signature, 1, KEY_SIZE), PublicKey_serialize(pubkey), message)

(* signature.rs: Signature wraps schnorr::Signature, 64 bytes *)
Signature_to_string(s) == to_hex(s)

Signature_from_str(s) ==
    LET h == from_hex(s)
    IN  IF h.ok /\ Len(s) = 2 * SCHNORR_SIGNATURE_SIZE THEN Ok(h.val)
        ELSE Err("Signature", "InvalidSignature")

(* ec::Message::from_slice *)
Message_from_slice(data) ==
    IF Len(data) = MESSAGE_SIZE THEN Ok(data) ELSE Err("Key", "InvalidMessage")

(* Mutant of Pair_sign: the message is parsed before the secret key is
   looked at. *)
Pair_sign_message_first(p, data, aux) ==
    LET m == Message_from_slice(data)
    IN  IF ~m.ok THEN m
        ELSE IF IsSome(p.secret_key) THEN Ok(sign_schnorr(Get(p.secret_key), m.val, aux))
        ELSE Err("Signature", "no secret key in the key pair")

(* Pair::sign; aux is the randomness sign_schnorr draws *)
Pair_sign(p, data, aux) ==
    IF IsSome(p.secret_key)
    THEN LET m == Message_from_slice(data)
         IN  IF ~m.ok THEN m
             ELSE Ok(sign_schnorr(Get(p.secret_key), m.val, aux))
    ELSE Err("Signature", "no secret key in the key pair")

(* Mutant of Pair_verify: the signature is checked against the pair's own
   public key, not against pk. *)
Pair_verify_own_key(p, s, data, pk) ==
    LET signature == Signature_from_str(Signature_to_string(s))
        message == Message_from_slice(data)
    IN  IF ~signature.ok THEN Err("Key", "InvalidSignature")
        ELSE IF ~message.ok THEN message
        ELSE IF verify_schnorr(signature.val, message.val, p.public_key) THEN Ok(Unit)
        ELSE Err("Key", "InvalidSignature")

(* Pair::verify *)
Pair_verify(p, s, data, pk) ==
    LET signature == Signature_from_str(Signature_to_string(s))
        message == Message_from_slice(data)
    IN  IF ~signature.ok THEN Err("Key", "InvalidSignature")
        ELSE IF ~message.ok THEN message
        ELSE IF verify_schnorr(signature.val, message.val, pk) THEN Ok(Unit)
        ELSE Err("Key", "InvalidSignature")

----------------------------------------------------------------------------
(* serde_json: the compact text of numbers, strings and arrays *)

RECURSIVE json_number(_)
json_number(n) ==
    IF n < 10 THEN <<48 + n>> ELSE json_number(n \div 10) \o <<48 + (n % 10)>>

json_escape(c) ==
    IF c = 34 THEN <<92, 34>>
    ELSE IF c = 92 THEN <<92, 92>>
    ELSE IF c = 8 THEN <<92, 98>>
    ELSE IF c = 9 THEN <<92, 116>>
    ELSE IF c = 10 THEN <<92, 110>>
    ELSE IF c = 12 THEN <<92, 102>>
    ELSE IF c = 13 THEN <<92, 114>>
    ELSE IF c < 32 THEN <<92, 117, 48, 48, HexDigits[(c \div 16) + 1], HexDigits[(c % 16) + 1]>>
    ELSE <<c>>

json_string(str) == <<34>> \o Concat([i \in 1..Len(str) |-> json_escape(str[i])]) \o <<34>>

(* a JSON array of already serialized items *)
json_array(items) ==
    <<91>> \o Concat([i \in 1..Len(items) |->
                        IF i = 1 THEN items[i] ELSE <<44>> \o items[i]]) \o <<93>>

(* Tag(Vec<String>) and Vec<Tag> *)
json_tag(tag) == json_array([i \in 1..Len(tag) |-> json_string(tag[i])])

json_tags(tags) == json_array([i \in 1..Len(tags) |-> json_tag(tags[i])])

(* Mutant of hash_preimage: the tags are left out of the hashed array. *)
hash_preimage_without_tags(pubkey, created_at, kind, tags, content) ==
    json_array(<<json_number(0), json_string(pubkey), json_number(created_at),
                 json_number(kind), json_string(content)>>)

(* json!([0, pubkey, created_at, kind, tags, content]) serialized *)
hash_preimage(pubkey, created_at, kind, tags, content) ==
    json_array(<<json_number(0), json_string(pubkey), json_number(created_at),
                 json_number(kind), json_tags(tags), json_string(content)>>)

----------------------------------------------------------------------------
(* The JSON text of an Event: serde_json::to_string and serde_json::from_str
   with the Serialize and Deserialize derived for Event and Tag. *)

(* the names of the fields of Event in the order of the struct: id, pubkey,
   created_at, kind, tags, content, sig *)
FieldNames ==
    << <<105, 100>>,
       <<112, 117, 98, 107, 101, 121>>,
       <<99, 114, 101, 97, 116, 101, 100, 95, 97, 116>>,
       <<107, 105, 110, 100>>,
       <<116, 97, 103, 115>>,
       <<99, 111, 110, 116, 101, 110, 116>>,
       <<115, 105, 103>> >>

(* "name":value *)
json_member(name, value) == json_string(name) \o <<58>> \o value

(* a JSON object of already serialized members *)
json_object(members) ==
    <<123>> \o Concat([i \in 1..Len(members) |->
                         IF i = 1 THEN members[i] ELSE <<44>> \o members[i]]) \o <<125>>

(* #[derive(Serialize)] for Event: the seven fields in the order of the
   struct, one member each *)
members_of(e) ==
    <<json_member(FieldNames[1], json_string(e.id)),
      json_member(FieldNames[2], json_string(e.pubkey)),
      json_member(FieldNames[3], json_number(e.created_at)),
      json_member(FieldNames[4], json_number(e.kind)),
      json_member(FieldNames[5], json_tags(e.tags)),
      json_member(FieldNames[6], json_string(e.content)),
      json_member(FieldNames[7], json_string(e.sig))>>

(* Mutant of Event_to_json: the signature is written under "signature". *)
Event_to_json_renamed_sig(e) ==
    json_object([members_of(e) EXCEPT
                    ![7] = json_member(<<115, 105, 103, 110, 97, 116, 117, 114, 101>>,
                                       json_string(e.sig))])

(* serde_json::to_string(&event) *)
Event_to_json(e) == json_object(members_of(e))

(* A step of the parser: the value read and the position behind it. *)
At(v, next) == [ok |-> TRUE, val |-> v, next |-> next, err |-> "", inner |-> ""]
JsonErr(why) == [ok |-> FALSE, val |-> <<>>, next |-> 0, err |-> "Json", inner |-> why]

(* the byte at position i, 0 behind the end of the text *)
Peek(s, i) == IF i <= Len(s) THEN s[i] ELSE 0

(* the position behind the white space at position i *)
RECURSIVE skip_ws(_, _)
skip_ws(s, i) == IF Peek(s, i) \in {32, 9, 10, 13} THEN skip_ws(s, i + 1) ELSE i

(* how many backslashes stand right before position j, not before lo *)
BackslashRun(s, lo, j) ==
    CHOOSE k \in 0..(j - lo) :
        /\ \A m \in 1..k : s[j - m] = 92
        /\ k = j - lo \/ s[j - k - 1] # 92

(* the quote that closes the string opened at position i: the first one
   with an even number of backslashes before it; 0 if there is none *)
ClosingQuote(s, i) ==
    LET quotes == {j \in (i + 1)..Len(s) : s[j] = 34 /\ BackslashRun(s, i + 1, j) % 2 = 0}
    IN  IF quotes = {} THEN 0 ELSE CHOOSE j \in quotes : \A k \in quotes : j <= k

(* the body of a string with its escapes undone: \" \\ \/ \b \f \n \r \t and
   \u00XX below 0x80; a control character or another escape is an error *)
unescape(body, next) ==
    LET n == Len(body)
        escapes == {p \in 1..n : body[p] = 92 /\ BackslashRun(body, 1, p) % 2 = 0}
        unicode == {p \in escapes : body[p + 1] = 117}
        hexes == {q \in 1..n : \E p \in unicode : q \in (p + 2)..(p + 5)}
        bad == \/ \E p \in 1..n : body[p] < 32
               \/ \E p \in escapes \ unicode :
                     body[p + 1] \notin {34, 92, 47, 98, 102, 110, 114, 116}
               \/ \E p \in unicode :
                     \/ p + 5 > n
                     \/ body[p + 2] # 48 \/ body[p + 3] # 48
                     \/ HexVal(body[p + 4]) \notin 0..7
                     \/ HexVal(body[p + 5]) = -1
        kept == SelectSeq([p \in 1..n |-> p], LAMBDA p : p \notin escapes /\ p \notin hexes)
        char(p) == IF (p - 1) \notin escapes THEN body[p]
                   ELSE IF body[p] = 117
                   THEN 16 * HexVal(body[p + 3]) + HexVal(body[p + 4])
                   ELSE IF body[p] = 110 THEN 10
                   ELSE IF body[p] = 116 THEN 9
                   ELSE IF body[p] = 114 THEN 13
                   ELSE IF body[p] = 98 THEN 8
                   ELSE IF body[p] = 102 THEN 12
                   ELSE body[p]
    IN  IF escapes = {} /\ \A p \in 1..n : body[p] >= 32 THEN At(body, next)
        ELSE IF bad THEN JsonErr("invalid escape")
        ELSE At([k \in 1..Len(kept) |-> char(kept[k])], next)

(* a string, from its opening quote at position i *)
parse_string(s, i) ==
    LET j == ClosingQuote(s, i)
    IN  IF Peek(s, i) # 34 THEN JsonErr("invalid type")
        ELSE IF j = 0 THEN JsonErr("EOF while parsing a string")
        ELSE unescape(SubSeq(s, i + 1, j - 1), j + 1)

(* the position behind the digits at position i *)
RECURSIVE digits_end(_, _)
digits_end(s, i) == IF Peek(s, i) \in 48..57 THEN digits_end(s, i + 1) ELSE i

RECURSIVE digits_value(_, _, _)
digits_value(s, i, end) ==
    IF end <= i THEN 0 ELSE 10 * digits_value(s, i, end - 1) + (s[end - 1] - 48)

(* a u32 (Seconds, Kind): digits with no leading zero, no sign, fraction or
   exponent, and at most u32::MAX = 4294967295; the limit is compared digit
   by digit, the number itself may be beyond the integers at hand *)
parse_u32(s, i) ==
    LET end == digits_end(s, i)
        max == <<52, 50, 57, 52, 57, 54, 55, 50, 57, 53>>
        above == \/ end - i > Len(max)
                 \/ /\ end - i = Len(max)
                    /\ \E p \in 1..Len(max) :
                          /\ s[i + p - 1] > max[p]
                          /\ \A q \in 1..(p - 1) : s[i + q - 1] = max[q]
    IN  IF Peek(s, i) = 45 THEN JsonErr("invalid value")
        ELSE IF end = i THEN JsonErr("invalid type")
        ELSE IF Peek(s, i) = 48 /\ end > i + 1 THEN JsonErr("invalid number")
        ELSE IF Peek(s, end) \in {46, 101, 69} THEN JsonErr("invalid type")
        ELSE IF above THEN JsonErr("invalid value")
        ELSE At(digits_value(s, i, end), end)

RECURSIVE parse_items(_, _, _, _, _)

(* what follows an item r of an array: a comma and more items, or the ] *)
item_then(s, r, acc, of) ==
    LET k == skip_ws(s, r.next)
    IN  IF ~r.ok THEN r
        ELSE IF Peek(s, k) = 44 THEN parse_items(s, k + 1, Append(acc, r.val), FALSE, of)
        ELSE IF Peek(s, k) = 93 THEN At(Append(acc, r.val), k + 1)
        ELSE JsonErr("expected , or ]")

(* Tag(Vec<String>): an array of strings *)
parse_tag(s, i) ==
    IF Peek(s, i) # 91 THEN JsonErr("invalid type")
    ELSE parse_items(s, i + 1, <<>>, TRUE, "String")

(* the items of an array, String, Kind or Tag, from behind its [ or behind
   a comma *)
parse_items(s, i, acc, first, of) ==
    LET k == skip_ws(s, i)
    IN  IF first /\ Peek(s, k) = 93 THEN At(acc, k + 1)
        ELSE item_then(s, IF of = "String" THEN parse_string(s, k)
                          ELSE IF of = "Kind" THEN parse_u32(s, k)
                          ELSE parse_tag(s, k),
                       acc, of)

(* Vec<Tag> *)
parse_tags(s, i) ==
    IF Peek(s, i) # 91 THEN JsonErr("invalid type")
    ELSE parse_items(s, i + 1, <<>>, TRUE, "Tag")

(* the end of a number of any shape: -? int frac? exp?; 0 if malformed *)
skip_number(s, i) ==
    LET a == IF Peek(s, i) = 45 THEN i + 1 ELSE i
        b == digits_end(s, a)
        c == IF Peek(s, b) # 46 THEN b
             ELSE IF digits_end(s, b + 1) = b + 1 THEN 0 ELSE digits_end(s, b + 1)
        f == IF Peek(s, c + 1) \in {43, 45} THEN c + 2 ELSE c + 1
        g == IF Peek(s, c) \notin {101, 69} THEN c
             ELSE IF digits_end(s, f) = f THEN 0 ELSE digits_end(s, f)
    IN  IF b = a \/ (Peek(s, a) = 48 /\ b > a + 1) \/ c = 0 THEN 0 ELSE g

IsAt(s, i, word) == i + Len(word) - 1 <= Len(s) /\ SubSeq(s, i, i + Len(word) - 1) = word

RECURSIVE skip_value(_, _)
RECURSIVE skip_items(_, _, _)
RECURSIVE skip_members(_, _, _)

(* what follows a skipped item or member r: a comma and more, or the
   closing bracket *)
skipped_then(s, r, part) ==
    LET k == skip_ws(s, r.next)
    IN  IF ~r.ok THEN r
        ELSE IF Peek(s, k) = 44
             THEN IF part = "items" THEN skip_items(s, k + 1, FALSE)
                  ELSE skip_members(s, k + 1, FALSE)
        ELSE IF Peek(s, k) = (IF part = "items" THEN 93 ELSE 125) THEN At(<<>>, k + 1)
        ELSE JsonErr("expected , or the closing bracket")

(* the value of a skipped member behind its name key *)
skipped_member(s, key) ==
    LET k == skip_ws(s, key.next)
    IN  IF ~key.ok THEN key
        ELSE IF Peek(s, k) # 58 THEN JsonErr("expected :")
        ELSE skipped_then(s, skip_value(s, skip_ws(s, k + 1)), "members")

(* serde::de::IgnoredAny: any JSON value is read and thrown away *)
skip_value(s, i) ==
    IF Peek(s, i) = 34 THEN parse_string(s, i)
    ELSE IF Peek(s, i) = 45 \/ Peek(s, i) \in 48..57
         THEN IF skip_number(s, i) = 0 THEN JsonErr("invalid number")
              ELSE At(<<>>, skip_number(s, i))
    ELSE IF IsAt(s, i, <<116, 114, 117, 101>>) THEN At(<<>>, i + 4)
    ELSE IF IsAt(s, i, <<102, 97, 108, 115, 101>>) THEN At(<<>>, i + 5)
    ELSE IF IsAt(s, i, <<110, 117, 108, 108>>) THEN At(<<>>, i + 4)
    ELSE IF Peek(s, i) = 91 THEN skip_items(s, i + 1, TRUE)
    ELSE IF Peek(s, i) = 123 THEN skip_members(s, i + 1, TRUE)
    ELSE JsonErr("expected value")

skip_items(s, i, first) ==
    LET k == skip_ws(s, i)
    IN  IF first /\ Peek(s, k) = 93 THEN At(<<>>, k + 1)
        ELSE skipped_then(s, skip_value(s, k), "items")

skip_members(s, i, first) ==
    LET k == skip_ws(s, i)
    IN  IF first /\ Peek(s, k) = 125 THEN At(<<>>, k + 1)
        ELSE IF Peek(s, k) # 34 THEN JsonErr("key must be a string")
        ELSE skipped_member(s, parse_string(s, k))

(* the value of the n-th field by its type: Hex and String are strings,
   Seconds and Kind are u32, tags are Vec<Tag> *)
parse_field(s, i, n) ==
    IF n \in {3, 4} THEN parse_u32(s, i)
    ELSE IF n = 5 THEN parse_tags(s, i)
    ELSE parse_string(s, i)

(* the Event of the values read: every field must have been seen *)
visit_end(got, next) ==
    IF \E m \in 1..Len(got) : ~IsSome(got[m]) THEN JsonErr("missing field")
    ELSE At([id |-> Get(got[1]), pubkey |-> Get(got[2]), created_at |-> Get(got[3]),
             kind |-> Get(got[4]), tags |-> Get(got[5]), content |-> Get(got[6]),
             sig |-> Get(got[7])], next)

RECURSIVE visit_map(_, _, _, _)

(* what follows the value r of the n-th field, or of a member of another
   name (n = 0) *)
member_then(s, r, n, got) ==
    LET k == skip_ws(s, r.next)
        got2 == IF n = 0 THEN got ELSE [got EXCEPT ![n] = Some(r.val)]
    IN  IF ~r.ok THEN r
        ELSE IF Peek(s, k) = 44 THEN visit_map(s, k + 1, got2, FALSE)
        ELSE IF Peek(s, k) = 125 THEN visit_end(got2, k + 1)
        ELSE JsonErr("expected , or }")

(* Mutant of member_value: a name Event does not have is an error, as under
   #[serde(deny_unknown_fields)]. *)
member_value_deny_unknown(s, i, n, got) ==
    IF n = 0 THEN JsonErr("unknown field")
    ELSE IF IsSome(got[n]) THEN JsonErr("duplicate field")
    ELSE member_then(s, parse_field(s, i, n), n, got)

(* the value at position i of the member whose name is the n-th field's,
   or no field's (n = 0): a field seen twice is an error, the value of any
   other name is ignored *)
member_value(s, i, n, got) ==
    IF n = 0 THEN member_then(s, skip_value(s, i), n, got)
    ELSE IF IsSome(got[n]) THEN JsonErr("duplicate field")
    ELSE member_then(s, parse_field(s, i, n), n, got)

(* the member behind its name key *)
member_key(s, key, got) ==
    LET k == skip_ws(s, key.next)
        named == {n \in 1..Len(FieldNames) : FieldNames[n] = key.val}
    IN  IF ~key.ok THEN key
        ELSE IF Peek(s, k) # 58 THEN JsonErr("expected :")
        ELSE member_value(s, skip_ws(s, k + 1),
                          IF named = {} THEN 0 ELSE CHOOSE n \in named : TRUE, got)

(* the visit_map of the derived Deserialize, from behind the { or behind a
   comma *)
visit_map(s, i, got, first) ==
    LET k == skip_ws(s, i)
    IN  IF first /\ Peek(s, k) = 125 THEN visit_end(got, k + 1)
        ELSE IF Peek(s, k) # 34 THEN JsonErr("key must be a string")
        ELSE member_key(s, parse_string(s, k), got)

RECURSIVE visit_seq(_, _, _, _)

(* what follows the n-th value r of the array form *)
element_then(s, r, n, got) ==
    LET k == skip_ws(s, r.next)
    IN  IF ~r.ok THEN r
        ELSE IF n = Len(FieldNames)
             THEN IF Peek(s, k) = 93 THEN visit_end([got EXCEPT ![n] = Some(r.val)], k + 1)
                  ELSE JsonErr("trailing characters")
        ELSE IF Peek(s, k) = 44
             THEN visit_seq(s, k + 1, [got EXCEPT ![n] = Some(r.val)], n + 1)
        ELSE IF Peek(s, k) = 93 THEN JsonErr("invalid length")
        ELSE JsonErr("expected , or ]")

(* the visit_seq of the derived Deserialize: the seven values in the order
   of the struct, from behind the [ or behind a comma *)
visit_seq(s, i, got, n) ==
    LET k == skip_ws(s, i)
    IN  IF Peek(s, k) = 93 THEN JsonErr("invalid length")
        ELSE element_then(s, parse_field(s, k, n), n, got)

(* what from_str does with what the visitor returned: only white space may
   follow the value *)
from_str_end(s, r) ==
    IF ~r.ok THEN Err("Json", r.inner)
    ELSE IF skip_ws(s, r.next) <= Len(s) THEN Err("Json", "trailing characters")
    ELSE Ok(r.val)

(* Event::deserialize at position i: an object, or the array of the seven
   values *)
parse_event(s, i) ==
    LET unseen == [n \in 1..Len(FieldNames) |-> None]
    IN  IF Peek(s, i) = 123 THEN visit_map(s, i + 1, unseen, TRUE)
        ELSE IF Peek(s, i) = 91 THEN visit_seq(s, i + 1, unseen, 1)
        ELSE JsonErr("invalid type")

(* serde_json::from_str::<Event>(s): nothing but the shape of the text and
   the types of the seven fields is looked at *)
Event_from_json(s) == from_str_end(s, parse_event(s, skip_ws(s, 1)))

----------------------------------------------------------------------------
(* The JSON text of a Request: serde_json::to_string and
   serde_json::from_str with the Serialize and Deserialize derived for
   Request under its serde attributes. *)

(* the names of the fields of Request in the order of the struct, e and p
   under their renames: ids, authors, kinds, #e, #p, since, until, limit *)
RequestFields ==
    << <<105, 100, 115>>,
       <<97, 117, 116, 104, 111, 114, 115>>,
       <<107, 105, 110, 100, 115>>,
       <<35, 101>>,
       <<35, 112>>,
       <<115, 105, 110, 99, 101>>,
       <<117, 110, 116, 105, 108>>,
       <<108, 105, 109, 105, 116>> >>

(* fn is_zero(n: &Seconds) -> bool *)
is_zero(n) == n = 0

(* Vec<Kind> *)
json_kinds(kinds) == json_array([i \in 1..Len(kinds) |-> json_number(kinds[i])])

(* the member of the n-th field, or nothing where skip_serializing_if
   says so *)
request_member(n, skip, value) ==
    IF skip THEN <<>> ELSE <<json_member(RequestFields[n], value)>>

(* Mutant of Request_members: limit is skipped when it is 0, as since and
   until are. *)
Request_members_skip_zero_limit(r) ==
    request_member(1, r.ids = <<>>, json_tag(r.ids))
        \o request_member(2, r.authors = <<>>, json_tag(r.authors))
        \o request_member(3, r.kinds = <<>>, json_kinds(r.kinds))
        \o request_member(4, r.e = <<>>, json_tag(r.e))
        \o request_member(5, r.p = <<>>, json_tag(r.p))
        \o request_member(6, is_zero(r.since), json_number(r.since))
        \o request_member(7, is_zero(r.until), json_number(r.until))
        \o request_member(8, is_zero(r.limit), json_number(r.limit))

(* #[derive(Serialize)] for Request: Vec::is_empty skips the five lists,
   is_zero skips since and until, limit has no attribute *)
Request_members(r) ==
    request_member(1, r.ids = <<>>, json_tag(r.ids))
        \o request_member(2, r.authors = <<>>, json_tag(r.authors))
        \o request_member(3, r.kinds = <<>>, json_kinds(r.kinds))
        \o request_member(4, r.e = <<>>, json_tag(r.e))
        \o request_member(5, r.p = <<>>, json_tag(r.p))
        \o request_member(6, is_zero(r.since), json_number(r.since))
        \o request_member(7, is_zero(r.until), json_number(r.until))
        \o request_member(8, FALSE, json_number(r.limit))

(* serde_json::to_string(&request) *)
Request_to_json(r) == json_object(Request_members(r))

(* a u16 (limit): a u32 that is at most u16::MAX *)
parse_u16(s, i) ==
    IF parse_u32(s, i).ok /\ parse_u32(s, i).val > 65535 THEN JsonErr("invalid value")
    ELSE parse_u32(s, i)

(* Vec<Kind>: an array of u32 *)
parse_kinds(s, i) ==
    IF Peek(s, i) # 91 THEN JsonErr("invalid type")
    ELSE parse_items(s, i + 1, <<>>, TRUE, "Kind")

(* the value of the n-th field of Request by its type: Vec<Hex>, Vec<Kind>,
   Seconds and u16 *)
Request_field(s, i, n) ==
    IF n \in {1, 2, 4, 5} THEN parse_tag(s, i)
    ELSE IF n = 3 THEN parse_kinds(s, i)
    ELSE IF n = 8 THEN parse_u16(s, i)
    ELSE parse_u32(s, i)

(* the Request of the values read: #[serde(default)] gives a field that was
   not seen its Default, only limit must have been seen *)
Request_visit_end(got, next) ==
    LET or_default(n, d) == IF IsSome(got[n]) THEN Get(got[n]) ELSE d
    IN  IF ~IsSome(got[8]) THEN JsonErr("missing field")
        ELSE At([ids |-> or_default(1, <<>>), authors |-> or_default(2, <<>>),
                 kinds |-> or_default(3, <<>>), e |-> or_default(4, <<>>),
                 p |-> or_default(5, <<>>), since |-> or_default(6, 0),
                 until |-> or_default(7, 0), limit |-> Get(got[8])], next)

RECURSIVE Request_visit_map(_, _, _, _)

(* what follows the value r of the n-th field of Request, or of a member of
   another name (n = 0) *)
Request_member_then(s, r, n, got) ==
    LET k == skip_ws(s, r.next)
        got2 == IF n = 0 THEN got ELSE [got EXCEPT ![n] = Some(r.val)]
    IN  IF ~r.ok THEN r
        ELSE IF Peek(s, k) = 44 THEN Request_visit_map(s, k + 1, got2, FALSE)
        ELSE IF Peek(s, k) = 125 THEN Request_visit_end(got2, k + 1)
        ELSE JsonErr("expected , or }")

(* the member of Request behind its name key: a field seen twice is an
   error, the value of any other name is ignored *)
Request_member_key(s, key, got) ==
    LET k == skip_ws(s, key.next)
        v == skip_ws(s, k + 1)
        named == {n \in 1..Len(RequestFields) : RequestFields[n] = key.val}
        n == IF named = {} THEN 0 ELSE CHOOSE m \in named : TRUE
    IN  IF ~key.ok THEN key
        ELSE IF Peek(s, k) # 58 THEN JsonErr("expected :")
        ELSE IF n = 0 THEN Request_member_then(s, skip_value(s, v), 0, got)
        ELSE IF IsSome(got[n]) THEN JsonErr("duplicate field")
        ELSE Request_member_then(s, Request_field(s, v, n), n, got)

(* the visit_map of the Deserialize derived for Request, from behind the {
   or behind a comma *)
Request_visit_map(s, i, got, first) ==
    LET k == skip_ws(s, i)
    IN  IF first /\ Peek(s, k) = 125 THEN Request_visit_end(got, k + 1)
        ELSE IF Peek(s, k) # 34 THEN JsonErr("key must be a string")
        ELSE Request_member_key(s, parse_string(s, k), got)

RECURSIVE Request_visit_seq(_, _, _, _)

(* what follows the n-th value r of the array form of Request *)
Request_element_then(s, r, n, got) ==
    LET k == skip_ws(s, r.next)
        got2 == [got EXCEPT ![n] = Some(r.val)]
    IN  IF ~r.ok THEN r
        ELSE IF Peek(s, k) = 93
             THEN IF n = Len(RequestFields) THEN Request_visit_end(got2, k + 1)
                  ELSE JsonErr("invalid length")
        ELSE IF n = Len(RequestFields) THEN JsonErr("trailing characters")
        ELSE IF Peek(s, k) # 44 THEN JsonErr("expected , or ]")
        ELSE IF Peek(s, skip_ws(s, k + 1)) = 93 THEN JsonErr("trailing comma")
        ELSE Request_visit_seq(s, k + 1, got2, n + 1)

(* the visit_seq of the Deserialize derived for Request: the values in the
   order of the struct; limit is the last and has no default, so an array
   that ends before it is an error *)
Request_visit_seq(s, i, got, n) ==
    LET k == skip_ws(s, i)
    IN  IF n = 1 /\ Peek(s, k) = 93 THEN JsonErr("invalid length")
        ELSE Request_element_then(s, Request_field(s, k, n), n, got)

(* Request::deserialize at position i *)
parse_request(s, i) ==
    LET unseen == [n \in 1..Len(RequestFields) |-> None]
    IN  IF Peek(s, i) = 123 THEN Request_visit_map(s, i + 1, unseen, TRUE)
        ELSE IF Peek(s, i) = 91 THEN Request_visit_seq(s, i + 1, unseen, 1)
        ELSE JsonErr("invalid type")

(* serde_json::from_str::<Request>(s) *)
Request_from_json(s) == from_str_end(s, parse_request(s, skip_ws(s, 1)))

----------------------------------------------------------------------------
(* message.rs: the JSON arrays of MessageRequest and MessageResponse.  A
   message is a record of its variant and of what the variant carries:
   id (a subscription id or the text of a notice), event, request. *)

TOPIC_EVENT == <<69, 86, 69, 78, 84>>
TOPIC_REQ == <<82, 69, 81>>
TOPIC_CLOSE == <<67, 76, 79, 83, 69>>
TOPIC_NOTICE == <<78, 79, 84, 73, 67, 69>>

(* enum MessageRequest { Event(Event), Request(String, Request),
   Close(String) }, from the variant and the values it carries in order *)
MessageRequest(variant, vals) ==
    IF variant = "Event"
    THEN [variant |-> variant, id |-> None, event |-> Some(vals[1]), request |-> None]
    ELSE IF variant = "Request"
    THEN [variant |-> variant, id |-> Some(vals[1]), event |-> None,
          request |-> Some(vals[2])]
    ELSE [variant |-> variant, id |-> Some(vals[1]), event |-> None, request |-> None]

(* enum MessageResponse { Event(String, Event), Notice(String) } *)
MessageResponse(variant, vals) ==
    IF variant = "Event"
    THEN [variant |-> variant, id |-> Some(vals[1]), event |-> Some(vals[2]),
          request |-> None]
    ELSE [variant |-> variant, id |-> Some(vals[1]), event |-> None, request |-> None]

(* impl Serialize for MessageRequest *)
MessageRequest_to_json(m) ==
    IF m.variant = "Event"
    THEN json_array(<<json_string(TOPIC_EVENT), Event_to_json(Get(m.event))>>)
    ELSE IF m.variant = "Request"
    THEN json_array(<<json_string(TOPIC_REQ), json_string(Get(m.id)),
                      Request_to_json(Get(m.request))>>)
    ELSE json_array(<<json_string(TOPIC_CLOSE), json_string(Get(m.id))>>)

(* impl Serialize for MessageResponse *)
MessageResponse_to_json(m) ==
    IF m.variant = "Event"
    THEN json_array(<<json_string(TOPIC_EVENT), json_string(Get(m.id)),
                      Event_to_json(Get(m.event))>>)
    ELSE json_array(<<json_string(TOPIC_NOTICE), json_string(Get(m.id))>>)

(* Mutant of to_uppercase: the topic is compared as it was written. *)
to_uppercase_not(str) == str

(* str::to_uppercase on UTF-8 bytes: a..z become A..Z, and the two letters
   beyond ASCII whose upper case is an ASCII letter do so: U+017F (long s,
   bytes C5 BF) becomes S and U+0131 (dotless i, bytes C4 B1) becomes I.
   Every other character beyond ASCII is left as it is: its upper case is
   beyond ASCII too, or holds SS, FF, FI, FL, ST or a letter with a mark,
   and neither makes a topic. *)
to_uppercase(str) ==
    LET n == Len(str)
        two(p) == p < n /\ <<str[p], str[p + 1]>> \in {<<197, 191>>, <<196, 177>>}
        kept == SelectSeq([p \in 1..n |-> p], LAMBDA p : ~(p > 1 /\ two(p - 1)))
        upper(p) == IF two(p) THEN (IF str[p] = 197 THEN 83 ELSE 73)
                    ELSE IF str[p] \in 97..122 THEN str[p] - 32
                    ELSE str[p]
    IN  [k \in 1..Len(kept) |-> upper(kept[k])]

(* <&str>::deserialize: a string is borrowed from the text, which cannot be
   done when it holds an escape *)
parse_borrowed_str(s, i) ==
    IF parse_string(s, i).ok /\ \E p \in (i + 1)..(parse_string(s, i).next - 2) : s[p] = 92
    THEN JsonErr("invalid type")
    ELSE parse_string(s, i)

(* T::deserialize at position i for the types of the elements *)
element(s, i, type) ==
    IF type = "str" THEN parse_borrowed_str(s, i)
    ELSE IF type = "String" THEN parse_string(s, i)
    ELSE IF type = "Event" THEN parse_event(s, i)
    ELSE parse_request(s, i)

(* Ok(Some(value)) of an element that was read *)
some_element(r) == IF r.ok THEN At(Some(r.val), r.next) ELSE r

(* SeqAccess::next_element::<T> from position i, behind the [ (first) or
   behind an element: Ok(None) at the ], which is left in place *)
next_element(s, i, first, type) ==
    LET k == skip_ws(s, i)
        v == skip_ws(s, k + 1)
    IN  IF Peek(s, k) = 93 THEN At(None, k)
        ELSE IF first THEN some_element(element(s, k, type))
        ELSE IF Peek(s, k) # 44 THEN JsonErr("expected , or ]")
        ELSE IF Peek(s, v) = 93 THEN JsonErr("trailing comma")
        ELSE some_element(element(s, v, type))

RECURSIVE next_elements(_, _, _, _)

(* seq.next_element()?.ok_or(invalid_length(..))? on r, then the elements
   that are left to read *)
ok_or_invalid_length(s, r, types, acc) ==
    IF ~r.ok THEN r
    ELSE IF r.val = None THEN JsonErr("invalid length")
    ELSE next_elements(s, r.next, types, Append(acc, Get(r.val)))

(* the elements a variant carries, one next_element each in the order of
   types *)
next_elements(s, i, types, acc) ==
    IF types = <<>> THEN At(acc, i)
    ELSE ok_or_invalid_length(s, next_element(s, i, FALSE, Head(types)), Tail(types), acc)

(* MessageRequestVisitor::visit_seq, topic being what the first
   next_element::<&str> returned *)
MessageRequest_visit_seq(s, topic) ==
    LET t == to_uppercase(Get(topic.val))
        variant == IF t = TOPIC_EVENT THEN "Event"
                   ELSE IF t = TOPIC_REQ THEN "Request"
                   ELSE "Close"
        types == IF t = TOPIC_EVENT THEN <<"Event">>
                 ELSE IF t = TOPIC_REQ THEN <<"String", "Request">>
                 ELSE <<"String">>
        built(r) == IF r.ok THEN At(MessageRequest(variant, r.val), r.next) ELSE r
    IN  IF ~topic.ok THEN topic
        ELSE IF topic.val = None THEN JsonErr("invalid length")
        ELSE IF t \notin {TOPIC_EVENT, TOPIC_REQ, TOPIC_CLOSE} THEN JsonErr("unknown variant")
        ELSE built(next_elements(s, topic.next, types, <<>>))

(* MessageResponseVisitor::visit_seq *)
MessageResponse_visit_seq(s, topic) ==
    LET t == to_uppercase(Get(topic.val))
        variant == IF t = TOPIC_EVENT THEN "Event" ELSE "Notice"
        types == IF t = TOPIC_EVENT THEN <<"String", "Event">> ELSE <<"String">>
        built(r) == IF r.ok THEN At(MessageResponse(variant, r.val), r.next) ELSE r
    IN  IF ~topic.ok THEN topic
        ELSE IF topic.val = None THEN JsonErr("invalid length")
        ELSE IF t \notin {TOPIC_EVENT, TOPIC_NOTICE} THEN JsonErr("unknown variant")
        ELSE built(next_elements(s, topic.next, types, <<>>))

(* Deserializer::deserialize_seq: the [, the visitor, and the ] that must
   follow what the visitor read *)
deserialize_seq(s, i, enum) ==
    LET end_seq(r) == IF ~r.ok THEN r
                      ELSE IF Peek(s, skip_ws(s, r.next)) = 93
                      THEN At(r.val, skip_ws(s, r.next) + 1)
                      ELSE JsonErr("trailing characters")
    IN  IF Peek(s, i) # 91 THEN JsonErr("invalid type")
        ELSE IF enum = "MessageRequest"
        THEN end_seq(MessageRequest_visit_seq(s, next_element(s, i + 1, TRUE, "str")))
        ELSE end_seq(MessageResponse_visit_seq(s, next_element(s, i + 1, TRUE, "str")))

(* serde_json::from_str::<MessageRequest>(s) *)
MessageRequest_from_json(s) ==
    from_str_end(s, deserialize_seq(s, skip_ws(s, 1), "MessageRequest"))

(* serde_json::from_str::<MessageResponse>(s) *)
MessageResponse_from_json(s) ==
    from_str_end(s, deserialize_seq(s, skip_ws(s, 1), "MessageResponse"))

----------------------------------------------------------------------------
(* The values event fields take in the model.  They are listed as
   sequences: the position of a value is what the idealised hash encodes. *)

(* "pubkey" (as in tests::get_simple_event) and 64 zeros: no public keys *)
JunkPubkey == <<112, 117, 98, 107, 101, 121>>
ZeroPubkey == to_hex(be_bytes(0))

PubkeyList ==
    [d \in 1..MaxScalar |-> PublicKey_to_string(x_only_public_key([d |-> d]))]
        \o <<JunkPubkey, ZeroPubkey>>

(* created_at: u32 seconds; 1675631647 is the time of tests::get_event *)
TimeList == <<0, 1675631647>>

KindList == <<0, 1>>

(* [], [["p","a"]], [["a","b"]], [["a\",\"b"]] *)
TagsList ==
    << <<>>,
       << << <<112>>, <<97>> >> >>,
       << << <<97>>, <<98>> >> >>,
       << << <<97, 34, 44, 34, 98>> >> >> >>

(* "", "a", "\"" *)
ContentList == << <<>>, <<97>>, <<34>> >>

Range(list) == {list[i] : i \in 1..Len(list)}

(* SHA-256 (hashes::Hash::hash), idealised: no two texts of the table share
   a digest.  The digest of a text is 32 bytes naming a tuple of fields
   that serializes to it. *)
Sha256Table ==
    {<<hash_preimage(PubkeyList[p], TimeList[t], KindList[k], TagsList[g], ContentList[c]),
       <<p, t, k, g, c>>>> :
        p \in 1..Len(PubkeyList), t \in 1..Len(TimeList), k \in 1..Len(KindList),
        g \in 1..Len(TagsList), c \in 1..Len(ContentList)}

Sha256(data) ==
    LET e == CHOOSE e \in Sha256Table : e[1] = data
    IN  [i \in 1..MESSAGE_SIZE |-> IF i <= Len(e[2]) THEN e[2][i] ELSE 0]

(* the Display of sha256::Hash *)
Hash_to_string(h) == to_hex(h)

----------------------------------------------------------------------------
(* event.rs *)

(* Mutant of Event_hash: the length of sig goes into the hash. *)
Event_hash_with_sig(e) ==
    [Sha256(hash_preimage(e.pubkey, e.created_at, e.kind, e.tags, e.content))
        EXCEPT ![MESSAGE_SIZE] = Len(e.sig) % 256]

(* Event::hash *)
Event_hash(e) ==
    Sha256(hash_preimage(e.pubkey, e.created_at, e.kind, e.tags, e.content))

(* Mutant of Event_new: when signing fails the event is returned
   unsigned. *)
Event_new_unsigned_on_error(kind, tags, content, p, now, aux) ==
    LET unsigned == [id |-> <<>>, pubkey |-> PublicKey_to_string(p.public_key),
                     created_at |-> now, kind |-> kind, tags |-> tags,
                     content |-> content, sig |-> <<>>]
        id == Event_hash(unsigned)
        s == Pair_sign(p, id, aux)
    IN  IF ~s.ok THEN Ok(unsigned)
        ELSE Ok([unsigned EXCEPT !.id = Hash_to_string(id),
                                 !.sig = Signature_to_string(s.val)])

(* Mutant of Event_new: the id is computed before the content is set. *)
Event_new_early_id(kind, tags, content, p, now, aux) ==
    LET unsigned == [id |-> <<>>, pubkey |-> PublicKey_to_string(p.public_key),
                     created_at |-> now, kind |-> kind, tags |-> tags,
                     content |-> <<>>, sig |-> <<>>]
        id == Event_hash(unsigned)
        s == Pair_sign(p, id, aux)
    IN  IF ~s.ok THEN Panic("unwrap on Err")
        ELSE Ok([unsigned EXCEPT !.id = Hash_to_string(id),
                                 !.content = content,
                                 !.sig = Signature_to_string(s.val)])

(* Event::new, up to pair.sign(id).unwrap(); now is time::since_epoch() and
   aux the randomness of the signature *)
Event_new(kind, tags, content, p, now, aux) ==
    LET unsigned == [id |-> <<>>, pubkey |-> PublicKey_to_string(p.public_key),
                     created_at |-> now, kind |-> kind, tags |-> tags,
                     content |-> content, sig |-> <<>>]
        id == Event_hash(unsigned)
        s == Pair_sign(p, id, aux)
    IN  IF ~s.ok THEN Panic("unwrap on Err")
        ELSE Ok([unsigned EXCEPT !.id = Hash_to_string(id),
                                 !.sig = Signature_to_string(s.val)])

(* Event::set_tags *)
Event_set_tags(e, tags) == [e EXCEPT !.tags = tags]

(* Event::verify behind the hash comparison: sig, id and pubkey are parsed
   in this order and the signature is checked *)
Event_verify_signature(e) ==
    LET s == Signature_from_str(e.sig)
    IN  IF ~s.ok THEN Err("Signature", s.inner)
        ELSE LET data == from_hex(e.id)
             IN  IF ~data.ok THEN Err("Hex", data.inner)
                 ELSE LET pk == PublicKey_from_str(e.pubkey)
                      IN  IF ~pk.ok THEN Err("Verification", pk.inner)
                          ELSE LET v == Pair_verify(Pair_from_public(pk.val),
                                                    s.val, data.val, pk.val)
                               IN  IF ~v.ok THEN Err("Verification", v.inner)
                                   ELSE Ok(Unit)

(* Mutant of Event_verify: sig is parsed before the hashes are compared. *)
Event_verify_sig_first(e) ==
    IF ~Signature_from_str(e.sig).ok THEN Err("Signature", Signature_from_str(e.sig).inner)
    ELSE IF Hash_to_string(Event_hash(e)) # e.id THEN Err("HashMismatch", "")
    ELSE Event_verify_signature(e)

(* Mutant of Event_verify: the hashes are not compared. *)
Event_verify_unchecked_id(e) == Event_verify_signature(e)

(* Event::verify, with the From conversions of event::Error *)
Event_verify(e) ==
    IF Hash_to_string(Event_hash(e)) # e.id THEN Err("HashMismatch", "")
    ELSE Event_verify_signature(e)

(* impl From<Error> for io::Error, with io_error *)
io_error(message) == [kind |-> "Other", message |-> message]

(* Mutant of Error_into_io: the message is the Display of event::Error,
   "event error" for every variant. *)
Error_into_io_display(err) == io_error("event error")

Error_into_io(err) ==
    IF err = "HashMismatch" THEN io_error("hash mismatch")
    ELSE IF err = "Verification" THEN io_error("verification error")
    ELSE IF err = "Signature" THEN io_error("signature error")
    ELSE io_error("hex error")

----------------------------------------------------------------------------
(* Specification Spec: the life of one event.  A pair is chosen, Event::new
   builds and signs an event (or an event arrives by deserialization, its id
   and sig carried as they are), the event is changed, verified, and the
   error of a failed verification converted into io::Error. *)

KeyIdle ==
    /\ msg = <<>> /\ sig = None /\ vargs = None /\ verdict = None
    /\ shared = None /\ sealed = None /\ opened = None

CodecIdle ==
    /\ overflow_checks = FALSE
    /\ record = None
    /\ text = <<>>
    /\ payload = None
    /\ decoded = None

JsonIdle == json = None /\ plain = None /\ parsed = None /\ sent = None

EventIdle ==
    /\ event = None
    /\ signed = None
    /\ outcome = None
    /\ previous = None
    /\ ioerr = None

Init ==
    /\ pair \in Pairs
    /\ EventIdle
    /\ KeyIdle
    /\ JsonIdle
    /\ CodecIdle
    /\ op = "init"

(* Event::new(kind, tags, content, &pair) *)
New(kind, tags, content, now, aux) ==
    /\ op = "init"
    /\ LET r == Event_new(kind, tags, content, pair, now, aux)
       IN  /\ event' = IF r.ok THEN Some(r.val) ELSE None
           /\ signed' = IF r.ok THEN Some(r.val) ELSE None
           /\ op' = IF r.ok THEN "new" ELSE "new_panicked"
    /\ UNCHANGED <<pair, outcome, previous, ioerr, keyVars, codecVars, jsonVars>>

(* "id", "sig": the id and sig of tests::get_simple_event *)
JunkId == <<105, 100>>
JunkSig == <<115, 105, 103>>

(* An event read from JSON (#[derive(Deserialize)]): every field is taken as
   it stands.  The events read are an event with junk id, pubkey and sig, as
   tests::get_simple_event, and the event Event::new returned with one field
   replaced. *)
SimpleEvent ==
    [id |-> JunkId, pubkey |-> JunkPubkey, created_at |-> 0, kind |-> 1,
     tags |-> TagsList[2], content |-> ContentList[2], sig |-> JunkSig]

(* sig candidates: junk, a signature with one byte changed, and the
   signatures the same pair gives the same id with other randomness *)
OtherSigs(e) ==
    {JunkSig}
    \cup {to_hex([from_hex(e.sig).val EXCEPT ![SCHNORR_SIGNATURE_SIZE] = (@ + 1) % 256])}
    \cup {Signature_to_string(Pair_sign(pair, from_hex(e.id).val, aux).val) : aux \in 1..MaxAux}

(* id candidates: junk, the id in upper-case hex digits, the id of the event
   with another content *)
OtherIds(e) ==
    {JunkId}
    \cup {[i \in 1..Len(e.id) |-> IF e.id[i] >= 97 THEN e.id[i] - 32 ELSE e.id[i]]}
    \cup {Hash_to_string(Event_hash([e EXCEPT !.content = c])) : c \in Range(ContentList)}

Edited(e) ==
    {[e EXCEPT !.pubkey = v] : v \in Range(PubkeyList)}
    \cup {[e EXCEPT !.created_at = v] : v \in Range(TimeList)}
    \cup {[e EXCEPT !.kind = v] : v \in Range(KindList)}
    \cup {[e EXCEPT !.tags = v] : v \in Range(TagsList)}
    \cup {[e EXCEPT !.content = v] : v \in Range(ContentList)}
    \cup {[e EXCEPT !.id = v] : v \in OtherIds(e)}
    \cup {[e EXCEPT !.sig = v] : v \in OtherSigs(e)}

Deserialize ==
    /\ \/ /\ op = "init"
          /\ event' = Some(SimpleEvent)
       \/ /\ op = "new"
          /\ \E e \in Edited(Get(signed)) \ {Get(signed)} : event' = Some(e)
    /\ op' = "deserialize"
    /\ outcome' = None
    /\ previous' = None
    /\ ioerr' = None
    /\ UNCHANGED <<pair, signed, keyVars, codecVars, jsonVars>>

(* An event read from JSON whose sender changed the pubkey and computed
   the id anew, as Event::hash does, and left the sig as it was. *)
DeserializeRehashed ==
    /\ op = "new"
    /\ \E e \in {[Get(signed) EXCEPT !.pubkey = v] : v \in Range(PubkeyList)}
                  \ {Get(signed)} :
          event' = Some([e EXCEPT !.id = Hash_to_string(Event_hash(e))])
    /\ op' = "deserialize"
    /\ outcome' = None
    /\ previous' = None
    /\ ioerr' = None
    /\ UNCHANGED <<pair, signed, keyVars, codecVars, jsonVars>>

(* event.set_tags(&tags), on an event not changed since it was built or
   read *)
SetTags(tags) ==
    /\ IsSome(event)
    /\ op \in {"new", "deserialize"}
    /\ IsSome(signed) => event = signed
    /\ event' = Some(Event_set_tags(Get(event), tags))
    /\ op' = "set_tags"
    /\ outcome' = None
    /\ previous' = None
    /\ ioerr' = None
    /\ UNCHANGED <<pair, signed, keyVars, codecVars, jsonVars>>

(* Mutant of Verify: verify stores the recomputed hash as the id. *)
Verify_storing_id ==
    /\ IsSome(event)
    /\ outcome' = Some(Event_verify(Get(event)))
    /\ event' = Some([Get(event) EXCEPT !.id = Hash_to_string(Event_hash(Get(event)))])
    /\ previous' = outcome
    /\ op' = "verify"
    /\ ioerr' = None
    /\ UNCHANGED <<pair, signed, keyVars, codecVars, jsonVars>>

(* event.verify(): &self *)
Verify ==
    /\ IsSome(event)
    /\ outcome' = Some(Event_verify(Get(event)))
    /\ previous' = outcome
    /\ op' = "verify"
    /\ ioerr' = None
    /\ UNCHANGED <<pair, event, signed, keyVars, codecVars, jsonVars>>

(* io::Error::from(err) for the error verify returned *)
IntoIo ==
    /\ IsSome(outcome)
    /\ ~Get(outcome).ok
    /\ ioerr' = Some(Error_into_io(Get(outcome).err))
    /\ op' = "into_io"
    /\ UNCHANGED <<pair, event, signed, outcome, previous, keyVars, codecVars, jsonVars>>

Next ==
    \/ \E kind \in Range(KindList), tags \in Range(TagsList),
          content \in Range(ContentList), now \in Range(TimeList), aux \in 1..MaxAux :
            New(kind, tags, content, now, aux)
    \/ Deserialize
    \/ DeserializeRehashed
    \/ \E tags \in Range(TagsList) : SetTags(tags)
    \/ Verify
    \/ IntoIo

Spec == Init /\ [][Next]_vars

----------------------------------------------------------------------------
(* Specification SpecKey: Pair::sign and Pair::verify.  A pair signs some
   data; then Pair::verify is called with a signature, data and a public
   key, each either the one of the signing or another one. *)

(* [0x1; 32] (key.rs tests::verification_works), two more messages, and data
   that is no 32-byte message *)
Messages ==
    {[i \in 1..MESSAGE_SIZE |-> 1],
     [i \in 1..MESSAGE_SIZE |-> IF i = 1 THEN 2 ELSE 1],
     [i \in 1..MESSAGE_SIZE |-> IF i = MESSAGE_SIZE THEN 0 ELSE 255]}

ShortData == [i \in 1..(MESSAGE_SIZE - 1) |-> 1]

(* every signature some pair of the model gives some message, and each of
   them with its first or its last byte changed *)
Signatures ==
    LET made == {sign_schnorr(sk, m, aux) : sk \in SecretKeys, m \in Messages, aux \in 1..MaxAux}
    IN  made
        \cup {[s EXCEPT ![1] = (@ + 1) % 256] : s \in made}
        \cup {[s EXCEPT ![SCHNORR_SIGNATURE_SIZE] = (@ + 1) % 256] : s \in made}

InitKey ==
    /\ pair \in Pairs
    /\ EventIdle
    /\ KeyIdle
    /\ JsonIdle
    /\ CodecIdle
    /\ op = "init"

(* pair.sign(data) *)
Sign(data, aux) ==
    /\ op = "init"
    /\ msg' = data
    /\ sig' = Some(Pair_sign(pair, data, aux))
    /\ op' = "sign"
    /\ UNCHANGED <<pair, vargs, verdict, shared, sealed, opened, eventVars, codecVars, jsonVars>>

(* pair.verify(&s, data, &pk) *)
VerifySig(s, data, pk) ==
    /\ op \in {"init", "sign"}
    /\ vargs' = Some([sig |-> s, data |-> data, pk |-> pk])
    /\ verdict' = Some(Pair_verify(pair, s, data, pk))
    /\ op' = "verify_sig"
    /\ UNCHANGED <<pair, msg, sig, shared, sealed, opened, eventVars, codecVars, jsonVars>>

NextKey ==
    \/ \E data \in Messages \cup {ShortData}, aux \in 1..MaxAux : Sign(data, aux)
    \/ \E s \in Signatures, data \in Messages \cup {ShortData}, pk \in PublicKeys :
            VerifySig(s, data, pk)

SpecKey == InitKey /\ [][NextKey]_vars

----------------------------------------------------------------------------
(* The bech32 crate (BIP-173): strings <hrp>1<data><checksum> over a 32
   character alphabet, the data in groups of five bits, the checksum a BCH
   code over the human-readable part and the data. *)

(* "qpzry9x8gf2tvdw0s3jn54khce6mua7l" *)
CHARSET ==
    <<113, 112, 122, 114, 121, 57, 120, 56, 103, 102, 50, 116, 118, 100, 119, 48,
      115, 51, 106, 110, 53, 52, 107, 104, 99, 101, 54, 109, 117, 97, 55, 108>>

SEP == 49    \* '1'

GEN == <<996825010, 642813549, 513874426, 1027748829, 705979059>>

(* the constant a valid checksum leaves: Variant::Bech32, Variant::Bech32m *)
VariantConst(variant) == IF variant = "Bech32" THEN 1 ELSE 734539939

RECURSIVE Xor(_, _)
Xor(a, b) ==
    IF a = 0 THEN b
    ELSE IF b = 0 THEN a
    ELSE (((a % 2) + (b % 2)) % 2) + 2 * Xor(a \div 2, b \div 2)

(* XOR of the generators selected by the five bits of b *)
GenMask ==
    [b \in 0..31 |->
        Xor(Xor(Xor(IF b % 2 = 1 THEN GEN[1] ELSE 0,
                    IF (b \div 2) % 2 = 1 THEN GEN[2] ELSE 0),
                Xor(IF (b \div 4) % 2 = 1 THEN GEN[3] ELSE 0,
                    IF (b \div 8) % 2 = 1 THEN GEN[4] ELSE 0)),
            IF (b \div 16) % 2 = 1 THEN GEN[5] ELSE 0)]

(* XOR of two groups of five bits *)
Xor5 == [a \in 0..31 |-> [b \in 0..31 |-> Xor(a, b)]]

(* chk = ((chk & 0x1ffffff) << 5) ^ v ^ (the generators the top five bits
   select), the XOR taken on the six groups of five bits *)
polymod_step(chk, v) ==
    LET c == (chk % 33554432) * 32 + v
        g == GenMask[chk \div 33554432]
    IN  Xor5[c % 32][g % 32]
        + 32 * Xor5[(c \div 32) % 32][(g \div 32) % 32]
        + 1024 * Xor5[(c \div 1024) % 32][(g \div 1024) % 32]
        + 32768 * Xor5[(c \div 32768) % 32][(g \div 32768) % 32]
        + 1048576 * Xor5[(c \div 1048576) % 32][(g \div 1048576) % 32]
        + 33554432 * Xor5[c \div 33554432][g \div 33554432]

(* the checksum register after values[lo..hi] have gone through, from chk;
   the steps are taken left to right, by halves to keep the nesting shallow
   (the test makes the left half be computed before the right one starts) *)
RECURSIVE polymod_from(_, _, _, _)
polymod_from(chk, values, lo, hi) ==
    IF lo > hi THEN chk
    ELSE IF lo = hi THEN polymod_step(chk, values[lo])
    ELSE LET mid == (lo + hi) \div 2
             left == polymod_from(chk, values, lo, mid)
         IN  IF left >= 0 THEN polymod_from(left, values, mid + 1, hi) ELSE left

polymod(values) == polymod_from(1, values, 1, Len(values))

hrp_expand(hrp) ==
    [i \in 1..Len(hrp) |-> hrp[i] \div 32] \o <<0>> \o [i \in 1..Len(hrp) |-> hrp[i] % 32]

create_checksum(hrp, data, variant) ==
    LET plm == Xor(polymod(hrp_expand(hrp) \o data \o <<0, 0, 0, 0, 0, 0>>),
                   VariantConst(variant))
    IN  [i \in 1..6 |-> (plm \div (32 ^ (6 - i))) % 32]

(* bit k (from 0) of a sequence of w-bit groups, most significant bit first;
   bits past the end are the zero padding *)
BitAt(data, w, k) ==
    IF k >= Len(data) * w THEN 0
    ELSE (data[(k \div w) + 1] \div (2 ^ (w - 1 - (k % w)))) % 2

RECURSIVE GroupValue(_, _, _, _)
GroupValue(data, w, start, n) ==
    IF n = 0 THEN 0
    ELSE (2 ^ (n - 1)) * BitAt(data, w, start) + GroupValue(data, w, start + 1, n - 1)

(* Mutant of to_base32: the bits after the last whole group are dropped. *)
to_base32_unpadded(bytes) ==
    [j \in 1..((Len(bytes) * 8) \div 5) |-> GroupValue(bytes, 8, (j - 1) * 5, 5)]

(* ToBase32: 8-bit to 5-bit groups, the last group padded with zero bits *)
to_base32(bytes) ==
    [j \in 1..((Len(bytes) * 8 + 4) \div 5) |-> GroupValue(bytes, 8, (j - 1) * 5, 5)]

(* FromBase32: 5-bit to 8-bit groups; the left-over bits must be fewer than
   five and all zero *)
from_base32(data) ==
    LET bits == Len(data) * 5
        whole == bits \div 8
    IN  IF (bits % 8) >= 5 \/ GroupValue(data, 5, whole * 8, bits % 8) # 0
        THEN Err("Bech32", "InvalidPadding")
        ELSE Ok([j \in 1..whole |-> GroupValue(data, 5, (j - 1) * 8, 8)])

(* bech32::encode(hrp, data, variant) for a lower-case hrp *)
bech32_encode(hrp, data, variant) ==
    IF hrp = <<>> THEN Err("Bech32", "InvalidLength")
    ELSE LET all == data \o create_checksum(hrp, data, variant)
         IN  Ok(hrp \o <<SEP>> \o [i \in 1..Len(all) |-> CHARSET[all[i] + 1]])

CharValue(c) == CHOOSE v \in 0..31 : CHARSET[v + 1] = c

(* position of the last '1' of s, 0 if there is none *)
LastSep(s) ==
    IF \E i \in 1..Len(s) : s[i] = SEP
    THEN CHOOSE i \in 1..Len(s) : s[i] = SEP /\ \A j \in (i + 1)..Len(s) : s[j] # SEP
    ELSE 0

(* bech32::decode(s): the hrp, the data without its checksum, the variant *)
bech32_decode(s) ==
    LET at == LastSep(s)
        hrp == SubSeq(s, 1, at - 1)
        chars == SubSeq(s, at + 1, Len(s))
    IN  IF at = 0 THEN Err("Bech32", "MissingSeparator")
        ELSE IF hrp = <<>> \/ Len(chars) < 6 THEN Err("Bech32", "InvalidLength")
        ELSE IF \E i \in 1..Len(chars) : chars[i] \notin Range(CHARSET)
             THEN Err("Bech32", "InvalidChar")
        ELSE LET data == [i \in 1..Len(chars) |-> CharValue(chars[i])]
                 plm == polymod(hrp_expand(hrp) \o data)
                 body == SubSeq(data, 1, Len(data) - 6)
             IN  IF plm = VariantConst("Bech32")
                 THEN Ok([hrp |-> hrp, data |-> body, variant |-> "Bech32"])
                 ELSE IF plm = VariantConst("Bech32m")
                 THEN Ok([hrp |-> hrp, data |-> body, variant |-> "Bech32m"])
                 ELSE Err("Bech32", "InvalidChecksum")

(* bech32::encode(prefix, data) of this crate *)
encode(prefix, data) == bech32_encode(prefix, to_base32(data), "Bech32")

(* Mutant of decode: the variant is looked at before the prefix. *)
decode_variant_first(prefix, data) ==
    LET r == bech32_decode(data)
    IN  IF ~r.ok THEN r
        ELSE IF r.val.variant # "Bech32" THEN Err("Variant", "")
        ELSE IF r.val.hrp # prefix THEN Err("InvalidPrefix", <<prefix, r.val.hrp>>)
        ELSE from_base32(r.val.data)

(* bech32::decode(prefix, data) of this crate *)
decode(prefix, data) ==
    LET r == bech32_decode(data)
    IN  IF ~r.ok THEN r
        ELSE IF r.val.hrp # prefix THEN Err("InvalidPrefix", <<prefix, r.val.hrp>>)
        ELSE IF r.val.variant # "Bech32" THEN Err("Variant", "")
        ELSE from_base32(r.val.data)

(* advance_by(iter, n) is iter.nth(n - 1) on usize: for n = 0 the
   subtraction overflows, which panics when the build checks overflow and
   wraps to usize::MAX when it does not, and nth of that (as of any count
   past the end) leaves the iterator empty. *)
advance_by(iter, n, checks) ==
    IF n = 0
    THEN IF checks THEN Panic("attempt to subtract with overflow") ELSE Ok(<<>>)
    ELSE Ok(Drop(iter, n))

(* std::str::from_utf8: every byte is ASCII, or a lead byte followed by the
   continuation bytes it announces (with the narrower second byte after
   0xE0, 0xED, 0xF0 and 0xF4), or a continuation byte some lead announces *)
Utf8Width(b) ==
    IF b < 128 THEN 1
    ELSE IF b \in 194..223 THEN 2
    ELSE IF b \in 224..239 THEN 3
    ELSE IF b \in 240..244 THEN 4
    ELSE 0

Utf8Second(lead) ==
    IF lead = 224 THEN 160..191
    ELSE IF lead = 237 THEN 128..159
    ELSE IF lead = 240 THEN 144..191
    ELSE IF lead = 244 THEN 128..143
    ELSE 128..191

Utf8LeadAt(v, i) ==
    /\ Utf8Width(v[i]) >= 2
    /\ i + Utf8Width(v[i]) - 1 <= Len(v)
    /\ v[i + 1] \in Utf8Second(v[i])
    /\ \A j \in (i + 2)..(i + Utf8Width(v[i]) - 1) : v[j] \in 128..191

from_utf8(v) ==
    IF \A i \in 1..Len(v) :
          \/ v[i] < 128
          \/ Utf8LeadAt(v, i)
          \/ /\ v[i] \in 128..191
             /\ \E k \in 1..3 : i - k >= 1 /\ Utf8LeadAt(v, i - k) /\ Utf8Width(v[i - k]) > k
    THEN Ok(v)
    ELSE Err("Utf8Error", "")

PUBLIC_PREFIX == <<110, 112, 117, 98>>                        \* "npub"
SECRET_PREFIX == <<110, 115, 101, 99>>                        \* "nsec"
EVENT_PREFIX == <<110, 101, 118, 101, 110, 116>>              \* "nevent"
PROFILE_PREFIX == <<110, 112, 114, 111, 102, 105, 108, 101>>  \* "nprofile"

(* .unwrap() / .expect(why) of an encoding *)
expect(r, why) == IF r.ok THEN r ELSE Panic(why)

(* impl ToBech32 for PublicKey *)
PublicKey_to_bech32(pk) ==
    expect(encode(PUBLIC_PREFIX, PublicKey_serialize(pk)), "unwrap on Err")

(* impl FromBech32 for PublicKey *)
PublicKey_from_bech32(s) ==
    LET bytes == decode(PUBLIC_PREFIX, s)
    IN  IF ~bytes.ok THEN bytes ELSE PublicKey_try_from(bytes.val)

(* SecretKey::display_secret_as_nsec *)
display_secret_as_nsec(sk) ==
    expect(encode(SECRET_PREFIX, secret_bytes(sk)), "unwrap on Err")

(* impl FromBech32 for SecretKey *)
SecretKey_from_bech32(s) ==
    LET bytes == decode(SECRET_PREFIX, s)
    IN  IF ~bytes.ok THEN bytes ELSE SecretKey_try_from(bytes.val)

(* one relay entry as both encoders write it: the length is len as u8 *)
relay_entry(relay) == <<RELAY_TYPE, Len(relay) % 256>> \o relay

(* impl ToBech32 for Profile *)
Profile_to_bech32(profile) ==
    LET bs == IF IsSome(profile.public_key)
              THEN PublicKey_serialize(Get(profile.public_key))
              ELSE [i \in 1..PUBKEY_SIZE |-> 0]
        bytes == <<SPECIAL_TYPE, PUBKEY_SIZE>> \o bs
                 \o Concat([i \in 1..Len(profile.relays) |-> relay_entry(profile.relays[i])])
    IN  expect(encode(PROFILE_PREFIX, bytes), "encoding nprofile")

(* the while loop of Profile::from_bech32 and the check after it *)
RECURSIVE Profile_entries(_, _, _)
Profile_entries(iter, profile, checks) ==
    IF iter = <<>>
    THEN IF Len(iter) # 0 THEN Err("UnexpectedData", iter) ELSE Ok(profile)
    ELSE LET n == Head(iter)
             rest == Tail(iter)
             size == Head(rest)
             data == Take(Tail(rest), size)
             after == advance_by(Tail(rest), size, checks)
         IN  IF n = SPECIAL_TYPE
             THEN IF rest = <<>> THEN Err("MissingLength", "")
                  ELSE IF size # PUBKEY_SIZE THEN Err("InvalidLength", <<PUBKEY_SIZE, size>>)
                  ELSE LET public_key == PublicKey_try_from(data)
                       IN  IF ~public_key.ok THEN public_key
                           ELSE IF ~after.ok THEN after
                           ELSE Profile_entries(after.val,
                                    [profile EXCEPT !.public_key = Some(public_key.val)],
                                    checks)
             ELSE IF n = RELAY_TYPE
             THEN IF rest = <<>> THEN Err("MissingLength", "")
                  ELSE LET str == from_utf8(data)
                       IN  IF ~str.ok THEN str
                           ELSE IF ~after.ok THEN after
                           ELSE Profile_entries(after.val,
                                    [profile EXCEPT !.relays = Append(@, str.val)],
                                    checks)
             ELSE Err("InvalidType", n)

(* impl FromBech32 for Profile *)
Profile_from_bech32(s, checks) ==
    LET bytes == decode(PROFILE_PREFIX, s)
    IN  IF ~bytes.ok THEN bytes
        ELSE Profile_entries(bytes.val, [public_key |-> None, relays |-> <<>>], checks)

(* impl ToBech32 for nevent::Event: the length byte is EVENT_SIZE, the id
   is written whole *)
nevent_to_bech32(e) ==
    LET data == <<SPECIAL_TYPE, EVENT_SIZE>> \o e.id
                \o Concat([i \in 1..Len(e.relays) |-> relay_entry(e.relays[i])])
    IN  expect(encode(EVENT_PREFIX, data), "encoding nevent")

(* the while loop of nevent::Event::from_bech32 and the check after it *)
RECURSIVE nevent_entries(_, _, _)
nevent_entries(iter, e, checks) ==
    IF iter = <<>>
    THEN IF Len(iter) # 0 THEN Err("UnexpectedData", iter) ELSE Ok(e)
    ELSE LET n == Head(iter)
             rest == Tail(iter)
             size == Head(rest)
             data == Take(Tail(rest), size)
             after == advance_by(Tail(rest), size, checks)
             str == from_utf8(data)
         IN  IF n = SPECIAL_TYPE
             THEN IF rest = <<>> THEN Err("MissingLength", "")
                  ELSE IF ~after.ok THEN after
                  ELSE IF ~str.ok THEN str
                  ELSE nevent_entries(after.val, [e EXCEPT !.id = str.val], checks)
             ELSE IF n = RELAY_TYPE
             THEN IF rest = <<>> THEN Err("MissingLength", "")
                  ELSE IF ~str.ok THEN str
                  ELSE IF ~after.ok THEN after
                  ELSE nevent_entries(after.val, [e EXCEPT !.relays = Append(@, str.val)], checks)
             ELSE Err("InvalidType", n)

(* impl FromBech32 for nevent::Event *)
nevent_from_bech32(s, checks) ==
    LET data == decode(EVENT_PREFIX, s)
    IN  IF ~data.ok THEN data
        ELSE nevent_entries(data.val, [id |-> <<>>, relays |-> <<>>], checks)

----------------------------------------------------------------------------
(* Specification SpecCodec: NIP-19 identifiers.  A record (a Profile, an
   nevent Event, the public or the secret key of the pair) is written as a
   bech32 string, or a string arrives that was built elsewhere from a
   payload of TLV entries; then one of the four from_bech32 reads it.  The
   build either checks integer overflow (debug) or does not (release). *)

SeqsUpTo(S, n) == UNION {[1..k -> S] : k \in 0..n}

(* "", "a", "wss://r.x.com" (nprofile.rs tests::get_profile) *)
RelayList ==
    << <<>>, <<97>>, <<119, 115, 115, 58, 47, 47, 114, 46, 120, 46, 99, 111, 109>> >>

(* "6623d3fb9270903631ee00c9683be706" (nevent.rs tests::get_simple_event) *)
TestId ==
    <<54, 54, 50, 51, 100, 51, 102, 98, 57, 50, 55, 48, 57, 48, 51, 54,
      51, 49, 101, 101, 48, 48, 99, 57, 54, 56, 51, 98, 101, 55, 48, 54>>

(* the test id, and an id as Event::new makes them: 64 hex digits *)
IdList ==
    <<TestId,
      Hash_to_string(Sha256(hash_preimage(PubkeyList[1], TimeList[1], KindList[1],
                                          TagsList[1], ContentList[1])))>>

Profiles ==
    {[public_key |-> k, relays |-> rs] :
        k \in {None, Some(pair.public_key)}, rs \in SeqsUpTo(Range(RelayList), MaxRelays)}

NEvents ==
    {[id |-> id, relays |-> rs] :
        id \in Range(IdList), rs \in SeqsUpTo(Range(RelayList), MaxRelays)}

(* TLV entries a payload built elsewhere is put together from: the special
   entry of a public key and of an id, relay entries (one of them empty),
   an entry of an unknown type, a relay entry cut short, a type byte with
   nothing behind it, a special entry of one byte *)
ChunkList ==
    << <<SPECIAL_TYPE, PUBKEY_SIZE>> \o PublicKey_serialize(pair.public_key),
       <<SPECIAL_TYPE, EVENT_SIZE>> \o TestId,
       relay_entry(RelayList[2]),
       relay_entry(RelayList[1]),
       <<2, 1, 97>>,
       <<RELAY_TYPE, 2, 97>>,
       <<RELAY_TYPE>>,
       <<SPECIAL_TYPE, 1, 97>> >>

Payloads == {Concat(cs) : cs \in SeqsUpTo(Range(ChunkList), MaxChunks)}

InitCodec ==
    /\ pair \in {Pair_from_secret(sk) : sk \in SecretKeys}
    /\ EventIdle
    /\ KeyIdle
    /\ JsonIdle
    /\ overflow_checks \in BOOLEAN
    /\ record = None
    /\ text = None
    /\ payload = None
    /\ decoded = None
    /\ op = "init"

(* the string r, if the encoding gave one *)
Written(kind, value, r) ==
    /\ op = "init"
    /\ r.ok
    /\ record' = Some([kind |-> kind, value |-> value])
    /\ text' = Some(r.val)
    /\ op' = "to_bech32"
    /\ UNCHANGED <<pair, overflow_checks, payload, decoded, eventVars, keyVars, jsonVars>>

(* profile.to_bech32() *)
ProfileToBech32(profile) == Written("nprofile", profile, Profile_to_bech32(profile))

(* event.to_bech32() of nevent::Event *)
NEventToBech32(e) == Written("nevent", e, nevent_to_bech32(e))

(* pair.public_key().to_bech32() *)
PublicKeyToBech32 == Written("npub", pair.public_key, PublicKey_to_bech32(pair.public_key))

(* secret_key.display_secret_as_nsec() *)
DisplaySecretAsNsec ==
    Written("nsec", Get(pair.secret_key), display_secret_as_nsec(Get(pair.secret_key)))

(* a string from elsewhere: a payload under a prefix, in valid bech32 *)
Receive(prefix, bytes) ==
    /\ op = "init"
    /\ payload' = Some(bytes)
    /\ text' = Some(encode(prefix, bytes).val)
    /\ op' = "receive"
    /\ UNCHANGED <<pair, overflow_checks, record, decoded, eventVars, keyVars, jsonVars>>

(* a string from elsewhere whose checksum is the bech32m one *)
ReceiveBech32m(prefix, bytes) ==
    /\ op = "init"
    /\ payload' = Some(bytes)
    /\ text' = Some(bech32_encode(prefix, to_base32(bytes), "Bech32m").val)
    /\ op' = "receive"
    /\ UNCHANGED <<pair, overflow_checks, record, decoded, eventVars, keyVars, jsonVars>>

Read(by, r) ==
    /\ op \in {"to_bech32", "receive"}
    /\ decoded' = Some([by |-> by, result |-> r])
    /\ op' = "from_bech32"
    /\ UNCHANGED <<pair, overflow_checks, record, text, payload, eventVars, keyVars, jsonVars>>

(* Profile::from_bech32(text) *)
ProfileFromBech32 == Read("nprofile", Profile_from_bech32(Get(text), overflow_checks))

(* nevent::Event::from_bech32(text) *)
NEventFromBech32 == Read("nevent", nevent_from_bech32(Get(text), overflow_checks))

(* PublicKey::from_bech32(text) *)
PublicKeyFromBech32 == Read("npub", PublicKey_from_bech32(Get(text)))

(* SecretKey::from_bech32(text) *)
SecretKeyFromBech32 == Read("nsec", SecretKey_from_bech32(Get(text)))

(* a string is written or received from the initial state only; the test
   in front keeps the sets of inputs from being built anywhere else *)
NextCodec ==
    \/ op = "init" /\ \E profile \in Profiles : ProfileToBech32(profile)
    \/ op = "init" /\ \E e \in NEvents : NEventToBech32(e)
    \/ PublicKeyToBech32
    \/ DisplaySecretAsNsec
    \/ op = "init" /\ \E prefix \in {PROFILE_PREFIX, EVENT_PREFIX}, bytes \in Payloads :
                            Receive(prefix, bytes)
    \/ op = "init" /\ \E prefix \in {PUBLIC_PREFIX, SECRET_PREFIX, EVENT_PREFIX, PROFILE_PREFIX},
                            bytes \in {PublicKey_serialize(pair.public_key), ChunkList[3]} :
                            ReceiveBech32m(prefix, bytes)
    \/ ProfileFromBech32
    \/ NEventFromBech32
    \/ PublicKeyFromBech32
    \/ SecretKeyFromBech32

SpecCodec == InitCodec /\ [][NextCodec]_vars

----------------------------------------------------------------------------
(* Specification SpecJson: the JSON text of an event.  Either an Event is
   written by serde_json::to_string, or a text arrives from elsewhere, and
   serde_json::from_str reads the text. *)

(* the most members of other names a received object carries *)
MaxExtras == 2

(* "", "id" and strings that need escapes: "\"\\\n" and "\t/\u0001" *)
JsonStrings == << <<>>, JunkId, <<34, 92, 10>>, <<9, 47, 1>> >>

(* tests::get_simple_event: the event of tests::get_json *)
TestEvent ==
    [id |-> JunkId, pubkey |-> JunkPubkey, created_at |-> 0, kind |-> 1,
     tags |-> << << <<112>>, <<112, 114, 111, 102, 105, 108, 101>>,
                    <<114, 101, 108, 97, 121, 115>>,
                    <<112, 101, 116, 110, 97, 109, 101>> >> >>,
     content |-> FieldNames[6], sig |-> JunkSig]

(* the events written: what Event::new returns for the pair, and events of
   any strings, as edits and deserialization can leave them *)
JsonEvents ==
    {Event_new(k, g, c, pair, t, aux).val :
        k \in Range(KindList), g \in Range(TagsList), c \in Range(ContentList),
        t \in Range(TimeList), aux \in 1..MaxAux}
    \cup {[id |-> i, pubkey |-> JunkPubkey, created_at |-> t, kind |-> k, tags |-> g,
           content |-> c, sig |-> s] :
            i \in Range(JsonStrings), s \in Range(JsonStrings), t \in Range(TimeList),
            k \in Range(KindList), g \in {TagsList[1], TagsList[4]},
            c \in Range(JsonStrings)}
    \cup {TestEvent, SimpleEvent, [SimpleEvent EXCEPT !.pubkey = <<34, 92, 10>>]}

(* members of names Event does not have: "ots":"ots", "ots":1,
   "x":{"a":[1,-2.5e+3,true,null,{"b":"}"}],"c":"\""} and "Id" : null *)
ExtraMembers ==
    << <<34, 111, 116, 115, 34, 58, 34, 111, 116, 115, 34>>,
       <<34, 111, 116, 115, 34, 58, 49>>,
       <<34, 120, 34, 58, 123, 34, 97, 34, 58, 91, 49, 44, 45, 50, 46, 53, 101, 43, 51,
         44, 116, 114, 117, 101, 44, 110, 117, 108, 108, 44, 123, 34, 98, 34, 58, 34,
         125, 34, 125, 93, 44, 34, 99, 34, 58, 34, 92, 34, 34, 125>>,
       <<34, 73, 100, 34, 32, 58, 32, 110, 117, 108, 108>> >>

(* objects as they arrive without members of other names: the object of
   tests::get_json, one of another order and spacing, one that lacks
   fields, one whose kind is a string, one whose id comes twice *)
PlainObjects ==
    LET m == members_of(TestEvent)
        sp == <<32>>
    IN  << m,
           <<sp \o m[7], m[5] \o sp, m[3], m[1], sp \o m[6] \o sp, m[4], m[2]>>,
           <<m[1], m[2]>>,
           <<m[1], m[2], m[3], json_member(FieldNames[4], json_string(<<49>>)), m[5], m[6],
             m[7]>>,
           <<m[1], m[2], m[3], m[4], m[5], m[6], m[7], m[1]>> >>

(* the members with more members put among them, each at the front, in
   the middle or at the end of what is there *)
RECURSIVE WithExtras(_, _)
WithExtras(members, extras) ==
    LET at == Head(extras)[2]
        n == IF at = "front" THEN 0
             ELSE IF at = "middle" THEN Len(members) \div 2
             ELSE Len(members)
    IN  IF extras = <<>> THEN members
        ELSE WithExtras(SubSeq(members, 1, n) \o <<Head(extras)[1]>>
                            \o SubSeq(members, n + 1, Len(members)),
                        Tail(extras))

InitJson ==
    /\ pair \in {Pair_from_secret(sk) : sk \in SecretKeys}
    /\ EventIdle
    /\ KeyIdle
    /\ CodecIdle
    /\ JsonIdle
    /\ op = "init"

(* serde_json::to_string(&e) *)
ToJson(e) ==
    /\ op = "init"
    /\ event' = Some(e)
    /\ json' = Some(Event_to_json(e))
    /\ op' = "to_string"
    /\ UNCHANGED <<pair, signed, outcome, previous, ioerr, plain, parsed, sent, keyVars, codecVars>>

(* a text arrives: an object, and members of other names put into it *)
ReceiveJson(members, extras) ==
    /\ op = "init"
    /\ json' = Some(json_object(WithExtras(members, extras)))
    /\ plain' = Some(json_object(members))
    /\ op' = "receive"
    /\ UNCHANGED <<pair, parsed, sent, eventVars, keyVars, codecVars>>

(* serde_json::from_str::<Event>(&json) *)
FromStr ==
    /\ op \in {"to_string", "receive"}
    /\ parsed' = Some(Event_from_json(Get(json)))
    /\ op' = "from_str"
    /\ UNCHANGED <<pair, json, plain, sent, eventVars, keyVars, codecVars>>

NextJson ==
    \/ op = "init" /\ \E e \in JsonEvents : ToJson(e)
    \/ op = "init" /\ \E members \in Range(PlainObjects),
                         extras \in SeqsUpTo(Range(ExtraMembers)
                                               \X {"front", "middle", "end"}, MaxExtras) :
                            ReceiveJson(members, extras)
    \/ FromStr

SpecJson == InitJson /\ [][NextJson]_vars

----------------------------------------------------------------------------
(* encryption.rs: AES-256 in CBC mode with PKCS#7 padding (aes, cbc).  The
   block cipher is idealised: under each key a permutation of the 16-byte
   blocks. *)

BLOCK_SIZE == 16

(* the most blocks of plaintext *)
MaxBlocks == 2

(* Aes256 on one block, and its inverse *)
encrypt_block(key, b) ==
    [i \in 1..BLOCK_SIZE |-> (b[(i % BLOCK_SIZE) + 1] + key[i] + key[i + BLOCK_SIZE]) % 256]

decrypt_block(key, c) ==
    [j \in 1..BLOCK_SIZE |->
        LET i == ((j + BLOCK_SIZE - 2) % BLOCK_SIZE) + 1
        IN  (c[i] + 512 - key[i] - key[i + BLOCK_SIZE]) % 256]

xor_in_place(a, b) == [i \in 1..Len(a) |-> Xor(a[i], b[i])]

(* Mutant of Pkcs7_pad: a message that fills its blocks gets no padding. *)
Pkcs7_pad_when_needed(message) ==
    LET n == (BLOCK_SIZE - (Len(message) % BLOCK_SIZE)) % BLOCK_SIZE
    IN  message \o [i \in 1..n |-> n]

(* Pkcs7::pad: 1 to 16 bytes, each the number of bytes added *)
Pkcs7_pad(message) ==
    LET n == BLOCK_SIZE - (Len(message) % BLOCK_SIZE)
    IN  message \o [i \in 1..n |-> n]

(* Pkcs7::unpad_blocks: the last byte n says how many bytes to drop; it is
   1..16 and the n - 1 bytes before it are n as well *)
Pkcs7_unpad(data) ==
    LET len == Len(data)
        n == data[len]
    IN  IF len = 0 THEN Err("Padding", "UnpadError")
        ELSE IF n = 0 \/ n > BLOCK_SIZE THEN Err("Padding", "UnpadError")
        ELSE IF \E i \in (len - n + 1)..(len - 1) : data[i] # n
             THEN Err("Padding", "UnpadError")
        ELSE Ok(SubSeq(data, 1, len - n))

(* cbc::Encryptor::encrypt_blocks: each block is xored with the block of
   ciphertext before it (the iv for the first) and encrypted *)
RECURSIVE encrypt_blocks(_, _, _)
encrypt_blocks(key, iv, data) ==
    LET c == encrypt_block(key, xor_in_place(SubSeq(data, 1, BLOCK_SIZE), iv))
    IN  IF data = <<>> THEN <<>>
        ELSE c \o encrypt_blocks(key, c, SubSeq(data, BLOCK_SIZE + 1, Len(data)))

(* cbc::Decryptor::decrypt_blocks *)
RECURSIVE decrypt_blocks(_, _, _)
decrypt_blocks(key, iv, data) ==
    LET c == SubSeq(data, 1, BLOCK_SIZE)
    IN  IF data = <<>> THEN <<>>
        ELSE xor_in_place(decrypt_block(key, c), iv)
                 \o decrypt_blocks(key, c, SubSeq(data, BLOCK_SIZE + 1, Len(data)))

(* encrypt256: encrypt_padded_vec_mut::<Pkcs7> *)
encrypt256(key, iv, message) == encrypt_blocks(key, iv, Pkcs7_pad(message))

(* decrypt256: decrypt_padded_vec_mut::<Pkcs7>, a ciphertext that is not
   whole blocks is an UnpadError *)
decrypt256(key, iv, ciphertext) ==
    IF Len(ciphertext) % BLOCK_SIZE # 0 THEN Err("Padding", "UnpadError")
    ELSE Pkcs7_unpad(decrypt_blocks(key, iv, ciphertext))

----------------------------------------------------------------------------
(* Specification SpecCrypt: a NIP-04 exchange.  The pair computes a shared
   secret with the public key of another party; a message is encrypted
   under a key and an iv, and a ciphertext is decrypted under them. *)

(* secret keys whose public points have an even and an odd y *)
BothParities == SecretKeys \cup {[d |-> Order - sk.d] : sk \in SecretKeys}

(* every message of 0 to MaxBlocks blocks of bytes 1 and of bytes 16, which
   end like a padding, and "hello world! this is my plaintext."
   (encryption.rs tests::get_plaintext) *)
Plaintexts ==
    {[i \in 1..n |-> f] : n \in 0..(BLOCK_SIZE * MaxBlocks), f \in {1, BLOCK_SIZE}}
    \cup {<<104, 101, 108, 108, 111, 32, 119, 111, 114, 108, 100, 33, 32, 116, 104, 105,
            115, 32, 105, 115, 32, 109, 121, 32, 112, 108, 97, 105, 110, 116, 101, 120,
            116, 46>>}

(* [0x24; 16] (tests::encrypt256_works) and the iv of zeros *)
IVs == {[i \in 1..BLOCK_SIZE |-> 36], [i \in 1..BLOCK_SIZE |-> 0]}

InitCrypt ==
    /\ pair \in {Pair_from_secret(sk) : sk \in BothParities}
    /\ EventIdle
    /\ KeyIdle
    /\ JsonIdle
    /\ CodecIdle
    /\ op = "init"

(* Pair::new_shared_secret(pair.secret_key, &theirs.public_key) *)
NewSharedSecret(theirs) ==
    /\ op = "init"
    /\ shared' = Some([ours |-> Get(pair.secret_key), theirs |-> theirs,
                       pair |-> Pair_new_shared_secret(Get(pair.secret_key),
                                                       x_only_public_key(theirs))])
    /\ op' = "new_shared_secret"
    /\ UNCHANGED <<pair, msg, sig, vargs, verdict, sealed, opened, eventVars, codecVars,
                   jsonVars>>

(* encrypt256(key, iv, msg); the key is [0x42; 32] (tests::encrypt256_works)
   or, after new_shared_secret, the bytes of the shared secret key
   (SecretKey::encrypt) *)
Encrypt(iv, plaintext) ==
    /\ op \in {"init", "new_shared_secret"}
    /\ op = "new_shared_secret" => Get(shared).pair.ok
    /\ LET key == IF op = "init" THEN [i \in 1..KEY_SIZE |-> 66]
                  ELSE secret_bytes(Get(Get(shared).pair.val.secret_key))
       IN  sealed' = Some([key |-> key, iv |-> iv, msg |-> plaintext,
                           out |-> encrypt256(key, iv, plaintext)])
    /\ op' = "encrypt"
    /\ UNCHANGED <<pair, msg, sig, vargs, verdict, shared, opened, eventVars, codecVars,
                   jsonVars>>

(* decrypt256(key, iv, ciphertext) of the ciphertext as it was written
   ("whole"), without its last byte ("cut"), without its last block
   ("short") or with its last byte changed ("changed") *)
Decrypt(how) ==
    /\ op = "encrypt"
    /\ LET out == Get(sealed).out
           ciphertext == IF how = "whole" THEN out
                         ELSE IF how = "cut" THEN SubSeq(out, 1, Len(out) - 1)
                         ELSE IF how = "short" THEN SubSeq(out, 1, Len(out) - BLOCK_SIZE)
                         ELSE [out EXCEPT ![Len(out)] = (@ + 1) % 256]
       IN  opened' = Some([ciphertext |-> ciphertext,
                           result |-> decrypt256(Get(sealed).key, Get(sealed).iv,
                                                 ciphertext)])
    /\ op' = "decrypt"
    /\ UNCHANGED <<pair, msg, sig, vargs, verdict, shared, sealed, eventVars, codecVars,
                   jsonVars>>

NextCrypt ==
    \/ \E theirs \in BothParities : NewSharedSecret(theirs)
    \/ op \in {"init", "new_shared_secret"}
          /\ \E iv \in IVs, plaintext \in Plaintexts : Encrypt(iv, plaintext)
    \/ \E how \in {"whole", "cut", "short", "changed"} : Decrypt(how)

SpecCrypt == InitCrypt /\ [][NextCrypt]_vars

----------------------------------------------------------------------------
(* Specification SpecMsg: the JSON text of requests and messages.  Either a
   Request, a MessageRequest or a MessageResponse is written by
   serde_json::to_string, or a text arrives from a peer that writes what it
   likes, and serde_json::from_str reads the text. *)

(* since and until range over 0..MaxSeconds *)
MaxSeconds == 1

(* the most fields of a Request a peer leaves out of its text *)
MaxOmitted == 2

(* "subid" (as in the tests of message.rs), and "\"\\\n" *)
SubIds == {<<115, 117, 98, 105, 100>>, <<34, 92, 10>>}

(* the requests written: every field empty or not, zero or not, on its own;
   the lists of tests::get_simple_request, a string that needs escapes, and
   the limits 0, 3 and u16::MAX *)
Requests ==
    [ids : {<<>>, <<RequestFields[1]>>},
     authors : {<<>>, <<RequestFields[2]>>},
     kinds : {<<>>, <<1, 2>>},
     e : {<<>>, << <<101>>, <<34, 92, 10>> >>},
     p : {<<>>, << <<112>>, <<112, 114, 111, 102, 105, 108, 101>> >>},
     since : 0..MaxSeconds,
     until : 0..MaxSeconds,
     limit : {0, 3, 65535}]

(* tests::get_empty_request and tests::get_simple_request *)
EmptyRequest ==
    [ids |-> <<>>, authors |-> <<>>, kinds |-> <<>>, e |-> <<>>, p |-> <<>>,
     since |-> 0, until |-> 0, limit |-> 0]

SimpleRequest ==
    [ids |-> << <<105, 100>> >>, authors |-> << <<97, 117, 116, 104, 111, 114>> >>,
     kinds |-> <<1, 2>>, e |-> << <<101>>, <<101, 118, 101, 110, 116>> >>,
     p |-> << <<112>>, <<112, 114, 111, 102, 105, 108, 101>> >>,
     since |-> 1, until |-> 2, limit |-> 3]

(* the events messages carry: those of the tests, and one Event::new
   returns for the pair *)
MessageEvents ==
    {TestEvent, SimpleEvent,
     Event_new(KindList[2], TagsList[2], ContentList[2], pair, TimeList[2], 1).val}

MessageRequests ==
    {MessageRequest("Event", <<e>>) : e \in MessageEvents}
    \cup {MessageRequest("Request", <<id, r>>) :
            id \in SubIds, r \in {q \in Requests : q.since = q.until} \cup {SimpleRequest}}
    \cup {MessageRequest("Close", <<id>>) : id \in SubIds}

MessageResponses ==
    {MessageResponse("Event", <<id, e>>) : id \in SubIds, e \in MessageEvents}
    \cup {MessageResponse("Notice", <<id>>) : id \in SubIds \cup {<<116, 104, 105, 115>>}}

(* what is written: values of the three types *)
WrittenValues ==
    ({"Request"} \X (Requests \cup {SimpleRequest}))
    \cup ({"MessageRequest"} \X MessageRequests)
    \cup ({"MessageResponse"} \X MessageResponses)

(* the messages of the tests of message.rs, one of each variant *)
TestMessages ==
    {<<"MessageRequest", MessageRequest("Event", <<TestEvent>>)>>,
     <<"MessageRequest", MessageRequest("Request", <<<<115, 117, 98, 105, 100>>, SimpleRequest>>)>>,
     <<"MessageRequest", MessageRequest("Close", <<<<115, 117, 98, 105, 100>>>>)>>,
     <<"MessageResponse", MessageResponse("Event", <<<<115, 117, 98, 105, 100>>, TestEvent>>)>>,
     <<"MessageResponse", MessageResponse("Notice", <<<<116, 104, 105, 115>>>>)>>}

(* topics as a peer writes them between the quotes: event, req, close,
   notice, Event, ReQ, clo(U+017F)e, not(U+0131)ce, events, and event,
   an escape in it *)
TopicTexts ==
    {<<101, 118, 101, 110, 116>>, <<114, 101, 113>>, <<99, 108, 111, 115, 101>>,
     <<110, 111, 116, 105, 99, 101>>, <<69, 118, 101, 110, 116>>, <<82, 101, 81>>,
     <<99, 108, 111, 197, 191, 101>>, <<110, 111, 116, 196, 177, 99, 101>>,
     <<101, 118, 101, 110, 116, 115>>,
     <<92, 117, 48, 48, 54, 53, 118, 101, 110, 116>>}

to_json_of(enum, v) ==
    IF enum = "Request" THEN Request_to_json(v)
    ELSE IF enum = "MessageRequest" THEN MessageRequest_to_json(v)
    ELSE MessageResponse_to_json(v)

from_json_of(enum, s) ==
    IF enum = "Request" THEN Request_from_json(s)
    ELSE IF enum = "MessageRequest" THEN MessageRequest_from_json(s)
    ELSE MessageResponse_from_json(s)

(* the text of a message with another topic between the quotes of its
   first element *)
with_topic(s, topic) ==
    LET c == CHOOSE c \in 1..Len(s) : s[c] = 44 /\ \A d \in 1..(c - 1) : s[d] # 44
    IN  <<91, 34>> \o topic \o <<34>> \o SubSeq(s, c, Len(s))

(* the object a peer writes of a request when it skips nothing but the
   fields in omitted *)
request_text(r, omitted) ==
    LET member(n, value) == request_member(n, n \in omitted, value)
    IN  json_object(member(1, json_tag(r.ids)) \o member(2, json_tag(r.authors))
                        \o member(3, json_kinds(r.kinds)) \o member(4, json_tag(r.e))
                        \o member(5, json_tag(r.p)) \o member(6, json_number(r.since))
                        \o member(7, json_number(r.until))
                        \o member(8, json_number(r.limit)))

InitMsg ==
    /\ pair \in {Pair_from_secret(sk) : sk \in SecretKeys}
    /\ EventIdle
    /\ KeyIdle
    /\ CodecIdle
    /\ JsonIdle
    /\ op = "init"

(* serde_json::to_string(&v) of a Request, MessageRequest or
   MessageResponse *)
Serialize(enum, v) ==
    /\ op = "init"
    /\ sent' = Some([enum |-> enum, how |-> "to_string", val |-> v, topic |-> <<>>,
                     omitted |-> {}])
    /\ json' = Some(to_json_of(enum, v))
    /\ op' = "to_string"
    /\ UNCHANGED <<pair, plain, parsed, eventVars, keyVars, codecVars>>

(* a message arrives with its topic written the peer's way *)
ReceiveMessage(enum, v, topic) ==
    /\ op = "init"
    /\ sent' = Some([enum |-> enum, how |-> "receive", val |-> v, topic |-> topic,
                     omitted |-> {}])
    /\ json' = Some(with_topic(to_json_of(enum, v), topic))
    /\ op' = "receive"
    /\ UNCHANGED <<pair, plain, parsed, eventVars, keyVars, codecVars>>

(* a request arrives with some of its fields left out and the others
   written, empty and zero ones too *)
ReceiveRequest(r, omitted) ==
    /\ op = "init"
    /\ sent' = Some([enum |-> "Request", how |-> "receive", val |-> r, topic |-> <<>>,
                     omitted |-> omitted])
    /\ json' = Some(request_text(r, omitted))
    /\ op' = "receive"
    /\ UNCHANGED <<pair, plain, parsed, eventVars, keyVars, codecVars>>

(* serde_json::from_str::<T> for the type the text was written for *)
FromStrMsg ==
    /\ op \in {"to_string", "receive"}
    /\ parsed' = Some(from_json_of(Get(sent).enum, Get(json)))
    /\ op' = "from_str"
    /\ UNCHANGED <<pair, json, plain, sent, eventVars, keyVars, codecVars>>

NextMsg ==
    \/ op = "init" /\ \E w \in WrittenValues : Serialize(w[1], w[2])
    \/ op = "init" /\ \E w \in TestMessages, topic \in TopicTexts :
                         ReceiveMessage(w[1], w[2], topic)
    \/ op = "init" /\ \E r \in {EmptyRequest, SimpleRequest},
                         omitted \in {o \in SUBSET (1..Len(RequestFields)) :
                                         Cardinality(o) <= MaxOmitted} :
                         ReceiveRequest(r, omitted)
    \/ FromStrMsg

SpecMsg == InitMsg /\ [][NextMsg]_vars

----------------------------------------------------------------------------

(* Claims on event identity (specification Spec) *)

HashedFields == {"pubkey", "created_at", "kind", "tags", "content"}

(* the fields in which two events differ *)
DiffFields(a, b) == {f \in HashedFields \cup {"id", "sig"} : a[f] # b[f]}

(* C1: an event Event::new returned, with exactly one of pubkey,
   created_at, kind, tags or content changed afterwards (id and sig kept),
   fails verify with HashMismatch. *)
C1_HashBinding ==
    (/\ op = "verify"
     /\ IsSome(signed)
     /\ DiffFields(Get(signed), Get(event)) \subseteq HashedFields
     /\ Cardinality(DiffFields(Get(signed), Get(event))) = 1)
        => Get(outcome) = Err("HashMismatch", "")

(* C1 witness: the tags of a signed event were replaced, the pubkey is
   still that of the signer, and verify answered HashMismatch. *)
C1_Witness ==
    /\ op = "verify"
    /\ IsSome(signed)
    /\ DiffFields(Get(signed), Get(event)) = {"tags"}
    /\ Get(outcome).err = "HashMismatch"

(* C2: Event::new with a pair holding a secret key returns an event (it
   does not abort) whose id is the hex of the hash of its own fields and
   whose sig is a signature of that hash under its pubkey; verify on the
   event as returned is Ok. *)
C2_NewIsValid ==
    /\ op = "new_panicked" => ~IsSome(pair.secret_key)
    /\ op = "new" =>
         LET e == Get(event)
             h == Event_hash(e)
         IN  /\ e.id = to_hex(h)
             /\ e.pubkey = PublicKey_to_string(pair.public_key)
             /\ Signature_from_str(e.sig).ok
             /\ verify_schnorr(Signature_from_str(e.sig).val, h, pair.public_key)
    /\ (op = "verify" /\ event = signed) => Get(outcome) = Ok(Unit)

(* C2 witness: verify was called on an event with content and tags just as
   Event::new returned it. *)
C2_Witness ==
    /\ op = "verify"
    /\ event = signed
    /\ Get(event).content # <<>>
    /\ Get(event).tags # <<>>
    /\ Get(outcome).ok

(* C5: a call of verify leaves the event as it is, and a call that follows
   another call on the same event returns what that one returned. *)
C5_VerifyPure ==
    [][op' = "verify" => /\ event' = event
                         /\ op = "verify" => outcome' = outcome]_vars

(* C5 witness: verify was called twice in a row and answered an error both
   times. *)
C5_Witness ==
    /\ op = "verify"
    /\ IsSome(previous)
    /\ previous = outcome
    /\ ~Get(outcome).ok

(* C6: verify answers HashMismatch when the recomputed hash differs from the
   id, and Verification when the hash matches, sig and pubkey parse, and the
   signature is not valid for id and pubkey; the io::Error made from the one
   is not the io::Error made from the other. *)
C6_DistinctKinds ==
    /\ op = "verify" =>
         LET e == Get(event)
             r == Get(outcome)
             h == Event_hash(e)
             s == Signature_from_str(e.sig)
             pk == PublicKey_from_str(e.pubkey)
         IN  /\ to_hex(h) # e.id => r.err = "HashMismatch"
             /\ (/\ to_hex(h) = e.id
                 /\ s.ok
                 /\ pk.ok
                 /\ ~verify_schnorr(s.val, h, pk.val)) => r.err = "Verification"
    /\ op = "into_io" =>
         \A k \in {"HashMismatch", "Verification"} :
            Get(ioerr) = Error_into_io(k) => Get(outcome).err = k

(* C6 witness: a hash-matching event with an invalid signature was refused
   with Verification, and the error converted. *)
C6_Witness ==
    /\ op = "into_io"
    /\ Get(outcome).err = "Verification"
    /\ Get(outcome).inner = "InvalidSignature"
    /\ Get(ioerr).message = "verification error"

----------------------------------------------------------------------------
(* Claims on signing (specification SpecKey) *)

(* the signatures Pair::sign can return for the data signed *)
OwnSignatures == {Pair_sign(pair, msg, aux).val : aux \in 1..MaxAux}

(* C3, as claimed: the signature Pair::sign returned verifies against the
   message signed and the pair's public key, and verification fails when
   exactly one of signature, message and public key is another one. *)
C3_AnyOtherSignatureFails ==
    (op = "verify_sig" /\ IsSome(sig) /\ Get(sig).ok) =>
        LET a == Get(vargs)
            same_sig == a.sig = Get(sig).val
            same_msg == a.data = msg
            same_pk == a.pk = pair.public_key
        IN  /\ (same_sig /\ same_msg /\ same_pk) => Get(verdict).ok
            /\ (same_sig /\ ~same_msg /\ same_pk) => ~Get(verdict).ok
            /\ (same_sig /\ same_msg /\ ~same_pk) => ~Get(verdict).ok
            /\ (~same_sig /\ same_msg /\ same_pk) => ~Get(verdict).ok

(* C3, amended: as above, but a different signature fails against the same
   message and key only if it is not itself a signature Pair::sign returns
   for that message under the pair; each of those verifies. *)
C3_SignatureSoundness ==
    (op = "verify_sig" /\ IsSome(sig) /\ Get(sig).ok) =>
        LET a == Get(vargs)
            same_sig == a.sig = Get(sig).val
            same_msg == a.data = msg
            same_pk == a.pk = pair.public_key
        IN  /\ (same_sig /\ same_msg /\ same_pk) => Get(verdict) = Ok(Unit)
            /\ (same_sig /\ ~same_msg /\ same_pk) => ~Get(verdict).ok
            /\ (same_sig /\ same_msg /\ ~same_pk) => ~Get(verdict).ok
            /\ (same_msg /\ same_pk) => (Get(verdict).ok <=> a.sig \in OwnSignatures)

(* C3 witness: a second signature of the same message by the same pair,
   made with other randomness, was verified, and accepted. *)
C3_Witness ==
    /\ op = "verify_sig"
    /\ IsSome(sig)
    /\ Get(sig).ok
    /\ Get(vargs).sig # Get(sig).val
    /\ Get(vargs).data = msg
    /\ Get(vargs).pk = pair.public_key
    /\ Get(verdict).ok

(* C4: Pair::sign on a pair without a secret key returns the no-secret-key
   error, whatever the data, and no signature; on a pair with a secret key
   and 32 bytes of data it returns a signature. *)
C4_SignNeedsSecretKey ==
    op = "sign" =>
        /\ ~IsSome(pair.secret_key) =>
              Get(sig) = Err("Signature", "no secret key in the key pair")
        /\ (IsSome(pair.secret_key) /\ Len(msg) = MESSAGE_SIZE) =>
              /\ Get(sig).ok
              /\ Len(Get(sig).val) = SCHNORR_SIGNATURE_SIZE

(* C4 witness: a pair made from a public key alone was asked to sign data
   that is not even a message, and answered the no-secret-key error. *)
C4_Witness ==
    /\ op = "sign"
    /\ ~IsSome(pair.secret_key)
    /\ Len(msg) # MESSAGE_SIZE
    /\ Get(sig).inner = "no secret key in the key pair"

----------------------------------------------------------------------------
(* Claims on the NIP-19 codec (specification SpecCodec) *)

(* the record that was written and the result of reading the string back
   with the from_bech32 of the same kind *)
ReadBack(kind) ==
    /\ op = "from_bech32"
    /\ IsSome(record)
    /\ Get(record).kind = kind
    /\ Get(decoded).by = kind

(* C7: for every Profile with a present public key and every relay list,
   Profile::from_bech32(p.to_bech32()) succeeds and equals p, the relays
   in the same order. *)
C7_ProfileRoundTrip ==
    (ReadBack("nprofile") /\ IsSome(Get(record).value.public_key))
        => /\ Get(decoded).result.ok
           /\ Get(decoded).result.val = Get(record).value

(* C8: for every nevent record (id, relays), Event::from_bech32(e.to_bech32())
   succeeds and equals e: the same id, the same relays in the same order. *)
C8_NEventRoundTrip ==
    ReadBack("nevent")
        => /\ Get(decoded).result.ok
           /\ Get(decoded).result.val.id = Get(record).value.id
           /\ Get(decoded).result.val.relays = Get(record).value.relays

(* C9: PublicKey::from_bech32(pk.to_bech32()) is pk, and
   SecretKey::from_bech32(sk.display_secret_as_nsec()) has the 32 secret
   bytes of sk. *)
C9_RawKeyRoundTrip ==
    /\ ReadBack("npub")
          => /\ Get(decoded).result.ok
             /\ Get(decoded).result.val = Get(record).value
    /\ ReadBack("nsec")
          => /\ Get(decoded).result.ok
             /\ secret_bytes(Get(decoded).result.val) = secret_bytes(Get(record).value)

C9_Witness ==
    /\ ReadBack("nsec")
    /\ Get(record).value = Get(pair.secret_key)
    /\ Get(text) = display_secret_as_nsec(Get(pair.secret_key)).val
    /\ Get(decoded).result.ok

(* The type byte of the first entry of a payload that is neither special
   nor relay, when every entry before it is a complete entry the decoder
   of that kind has to accept: a relay in UTF-8, an id in UTF-8 (nevent),
   a public key of 32 bytes (nprofile).  None if there is no such entry. *)
RECURSIVE UnknownTypeEntry(_, _)
UnknownTypeEntry(bytes, kind) ==
    IF bytes = <<>> THEN None
    ELSE IF Head(bytes) \notin {SPECIAL_TYPE, RELAY_TYPE} THEN Some(Head(bytes))
    ELSE IF Len(bytes) < 2 \/ Len(bytes) - 2 < bytes[2] THEN None
    ELSE LET value == SubSeq(bytes, 3, 2 + bytes[2])
             valid == IF Head(bytes) = SPECIAL_TYPE /\ kind = "nprofile"
                      THEN PublicKey_try_from(value).ok
                      ELSE from_utf8(value).ok
         IN  IF valid THEN UnknownTypeEntry(Drop(bytes, 2 + bytes[2]), kind) ELSE None

(* the nevent or nprofile decoder has read a string of its own prefix *)
ReadPayload(kind) ==
    /\ op = "from_bech32"
    /\ IsSome(payload)
    /\ Get(decoded).by = kind
    /\ Get(text) = encode(IF kind = "nprofile" THEN PROFILE_PREFIX ELSE EVENT_PREFIX,
                          Get(payload)).val

(* C10: decoding an nevent or nprofile payload with an entry of a type
   other than 0x00 and 0x01 fails with InvalidType carrying that byte; the
   entry is never skipped and no record is returned. *)
C10_UnknownTypeRejected ==
    \A kind \in {"nprofile", "nevent"} :
        (ReadPayload(kind) /\ IsSome(UnknownTypeEntry(Get(payload), kind)))
            => /\ ~Get(decoded).result.ok
               /\ Get(decoded).result.err = "InvalidType"
               /\ Get(decoded).result.inner = Get(UnknownTypeEntry(Get(payload), kind))

(* What is left of a payload after its longest run of complete entries the
   decoder of that kind has to accept (a relay in UTF-8, an id in UTF-8,
   a public key of 32 bytes); <<>> if the payload is such entries only. *)
RECURSIVE Leftover(_, _)
Leftover(bytes, kind) ==
    IF bytes = <<>> THEN <<>>
    ELSE IF Head(bytes) \notin {SPECIAL_TYPE, RELAY_TYPE} THEN bytes
    ELSE IF Len(bytes) < 2 \/ Len(bytes) - 2 < bytes[2] THEN bytes
    ELSE LET value == SubSeq(bytes, 3, 2 + bytes[2])
             valid == IF Head(bytes) = SPECIAL_TYPE /\ kind = "nprofile"
                      THEN PublicKey_try_from(value).ok
                      ELSE from_utf8(value).ok
         IN  IF valid THEN Leftover(Drop(bytes, 2 + bytes[2]), kind) ELSE bytes

(* C11: decoding an nevent or nprofile payload with extra bytes after its
   last valid entry fails with UnexpectedData carrying the bytes left over. *)
C11_TrailingBytesUnexpected ==
    \A kind \in {"nprofile", "nevent"} :
        (/\ ReadPayload(kind)
         /\ Leftover(Get(payload), kind) # <<>>
         /\ Leftover(Get(payload), kind) # Get(payload))
            => /\ ~Get(decoded).result.ok
               /\ Get(decoded).result.err = "UnexpectedData"
               /\ Get(decoded).result.inner = Leftover(Get(payload), kind)

(* after complete valid entries comes an entry of type special or relay
   whose length byte announces more bytes than the payload still has *)
TruncatedEntry(bytes, kind) ==
    LET rest == Leftover(bytes, kind)
    IN  /\ Len(rest) >= 2
        /\ rest[1] \in {SPECIAL_TYPE, RELAY_TYPE}
        /\ Len(rest) - 2 < rest[2]

(* C12: decoding an nevent or nprofile payload in which the length byte of
   an entry announces more value bytes than remain fails with an error: no
   record is returned whose id or relay was built from fewer bytes. *)
C12_TruncatedValueRejected ==
    \A kind \in {"nprofile", "nevent"} :
        (ReadPayload(kind) /\ TruncatedEntry(Get(payload), kind))
            => ~Get(decoded).result.ok

(* C13: decoding an nevent or nprofile payload that ends right after a type
   byte 0x00 or 0x01, no length byte behind it, fails with MissingLength. *)
C13_MissingLength ==
    \A kind \in {"nprofile", "nevent"} :
        (/\ ReadPayload(kind)
         /\ Leftover(Get(payload), kind) \in {<<SPECIAL_TYPE>>, <<RELAY_TYPE>>})
            => /\ ~Get(decoded).result.ok
               /\ Get(decoded).result.err = "MissingLength"

(* the prefix each from_bech32 hands to decode *)
PrefixOf(kind) ==
    IF kind = "npub" THEN PUBLIC_PREFIX
    ELSE IF kind = "nsec" THEN SECRET_PREFIX
    ELSE IF kind = "nevent" THEN EVENT_PREFIX
    ELSE PROFILE_PREFIX

(* C14: decode(prefix, s) gives bytes only if the human-readable part of s
   is prefix and the checksum is the bech32 one; another human-readable
   part gives InvalidPrefix (whatever the variant), the bech32m variant
   under the right prefix gives Variant; so no from_bech32 returns a value
   for a string that was written as another kind. *)
C14_PrefixAndVariant ==
    op = "from_bech32" =>
        LET s == bech32_decode(Get(text)).val
            prefix == PrefixOf(Get(decoded).by)
            r == Get(decoded).result
        IN  /\ s.hrp # prefix
                => /\ ~r.ok
                   /\ r.err = "InvalidPrefix"
                   /\ r.inner = <<prefix, s.hrp>>
            /\ (s.hrp = prefix /\ s.variant = "Bech32m")
                => /\ ~r.ok
                   /\ r.err = "Variant"
            /\ (r.ok /\ IsSome(record)) => Get(record).kind = Get(decoded).by

C14_Witness ==
    /\ op = "from_bech32"
    /\ Get(decoded).by = "npub"
    /\ bech32_decode(Get(text)).val.hrp = PROFILE_PREFIX
    /\ bech32_decode(Get(text)).val.variant = "Bech32m"
    /\ Get(decoded).result.err = "InvalidPrefix"

(* after complete valid entries comes a special entry whose length byte is
   not PUBKEY_SIZE *)
SpecialOfOtherLength(bytes) ==
    LET rest == Leftover(bytes, "nprofile")
    IN  /\ Len(rest) >= 2
        /\ rest[1] = SPECIAL_TYPE
        /\ rest[2] # PUBKEY_SIZE

(* C15: decoding an nprofile payload whose special entry has a length byte
   other than 32 fails with InvalidLength(expected 32, found that length),
   whatever bytes follow. *)
C15_InvalidLength ==
    (ReadPayload("nprofile") /\ SpecialOfOtherLength(Get(payload)))
        => /\ ~Get(decoded).result.ok
           /\ Get(decoded).result.err = "InvalidLength"
           /\ Get(decoded).result.inner
                 = <<PUBKEY_SIZE, Leftover(Get(payload), "nprofile")[2]>>

(* some entry of the payload, taken entry by entry, is a special one *)
RECURSIVE HasSpecialEntry(_)
HasSpecialEntry(bytes) ==
    IF bytes = <<>> THEN FALSE
    ELSE IF Head(bytes) = SPECIAL_TYPE THEN TRUE
    ELSE IF Len(bytes) < 2 THEN FALSE
    ELSE HasSpecialEntry(Drop(bytes, 2 + bytes[2]))

(* C16: a Profile without public key is written with a special entry of 32
   zero bytes, without error; reading that string succeeds and gives a
   Profile whose public_key is Some; the decoder gives None for public_key
   only if the payload had no special entry. *)
C16_NonePlaceholder ==
    /\ (/\ op \in {"to_bech32", "from_bech32"}
        /\ IsSome(record)
        /\ Get(record).kind = "nprofile"
        /\ Get(record).value.public_key = None)
          => LET bytes == decode(PROFILE_PREFIX, Get(text))
             IN  /\ bytes.ok
                 /\ Take(bytes.val, 2 + PUBKEY_SIZE)
                       = <<SPECIAL_TYPE, PUBKEY_SIZE>> \o [i \in 1..PUBKEY_SIZE |-> 0]
    /\ (ReadBack("nprofile") /\ Get(record).value.public_key = None)
          => /\ Get(decoded).result.ok
             /\ IsSome(Get(decoded).result.val.public_key)
    /\ (/\ ReadPayload("nprofile")
        /\ Get(decoded).result.ok
        /\ Get(decoded).result.val.public_key = None)
          => ~HasSpecialEntry(Get(payload))

(* one entry whose length byte is the number of its value bytes *)
TlvEntry(type, value) == <<type, Len(value)>> \o value

(* C17: every payload the nevent and nprofile encoders write is a
   well-formed TLV sequence: the length byte of the special entry and of
   every relay entry is the number of value bytes that follow it. *)
C17_WellFormedPayload ==
    (/\ op = "to_bech32"
     /\ Get(record).kind \in {"nprofile", "nevent"})
        => LET v == Get(record).value
               special == IF Get(record).kind = "nevent" THEN v.id
                          ELSE IF IsSome(v.public_key)
                          THEN PublicKey_serialize(Get(v.public_key))
                          ELSE [i \in 1..PUBKEY_SIZE |-> 0]
               bytes == decode(PrefixOf(Get(record).kind), Get(text))
           IN  /\ bytes.ok
               /\ bytes.val = TlvEntry(SPECIAL_TYPE, special)
                              \o Concat([i \in 1..Len(v.relays) |->
                                            TlvEntry(RELAY_TYPE, v.relays[i])])

(* the values of the relay entries of a payload, entry by entry, in the
   order of the buffer *)
RECURSIVE RelayValues(_)
RelayValues(bytes) ==
    IF Len(bytes) < 2 THEN <<>>
    ELSE LET value == Take(Drop(bytes, 2), bytes[2])
             rest == RelayValues(Drop(bytes, 2 + bytes[2]))
         IN  IF Head(bytes) = RELAY_TYPE THEN <<value>> \o rest ELSE rest

(* C18: on a successful nevent or nprofile decode the relays of the record
   are the values of the relay entries of the payload, in the order of the
   buffer, duplicates kept; no relay entry gives the empty list. *)
C18_RelaysInOrder ==
    \A kind \in {"nprofile", "nevent"} :
        (ReadPayload(kind) /\ Get(decoded).result.ok)
            => Get(decoded).result.val.relays = RelayValues(Get(payload))

(* Claims on the JSON text of an event (specification SpecJson) *)

(* the names of the members of the object a text holds, in their order *)
RECURSIVE object_keys(_, _, _)
keys_next(s, r, acc) ==
    LET k == skip_ws(s, r.next)
    IN  IF r.ok /\ Peek(s, k) = 44 THEN object_keys(s, k + 1, acc) ELSE acc

keys_after(s, key, acc) ==
    keys_next(s, skip_value(s, skip_ws(s, skip_ws(s, key.next) + 1)), Append(acc, key.val))

object_keys(s, i, acc) ==
    LET k == skip_ws(s, i)
    IN  IF Peek(s, k) # 34 THEN acc ELSE keys_after(s, parse_string(s, k), acc)

MemberNames(s) == object_keys(s, skip_ws(s, 1) + 1, <<>>)

(* C19: from_str verifies nothing: whatever strings an event holds for id,
   pubkey and sig, reading the text to_string wrote of it gives the event
   back, field for field, and that text is an object of exactly the seven
   members id, pubkey, created_at, kind, tags, content, sig in this order. *)
C19_JsonRoundTrip ==
    /\ op = "to_string" => MemberNames(Get(json)) = FieldNames
    /\ (op = "from_str" /\ plain = None) => Get(parsed) = Ok(Get(event))

(* an event whose id is no hash and whose sig is no signature was written
   and read back as it was, and it does not verify *)
C19_Witness ==
    /\ op = "from_str"
    /\ plain = None
    /\ Get(event) = SimpleEvent
    /\ Get(parsed) = Ok(SimpleEvent)
    /\ ~Event_verify(Get(parsed).val).ok

(* C20: a text with members of names Event does not have reads as the text
   without them does, and to_string writes no member of any name other than
   id, pubkey, created_at, kind, tags, content and sig. *)
C20_UnknownFieldsIgnored ==
    /\ (op = "from_str" /\ plain # None) => Get(parsed) = Event_from_json(Get(plain))
    /\ op = "to_string" =>
          \A n \in 1..Len(MemberNames(Get(json))) :
              MemberNames(Get(json))[n] \in Range(FieldNames)

(* the object of tests::get_ots_json, and more such members in it, was read
   as the event of tests::get_simple_event *)
C20_Witness ==
    /\ op = "from_str"
    /\ plain # None
    /\ Len(MemberNames(Get(json))) = Len(FieldNames) + MaxExtras
    /\ Get(parsed) = Ok(TestEvent)

(* Claims on the shared secret and the encryption (specification SpecCrypt) *)

(* C21: both parties arrive at the same shared secret: new_shared_secret of
   our secret key and their public key returns the pair that
   new_shared_secret of their secret key and our public key returns, a pair
   with a secret key, and taking the point of odd y for their public key
   instead of the one of even y gives the same 32 bytes. *)
C21_SharedSecretAgrees ==
    shared # None =>
        LET r == Get(shared)
            odd == shared_secret_point(public_key_of(x_only_public_key(r.theirs), "Odd"),
                                       r.ours)
        IN  /\ r.pair.ok
            /\ IsSome(r.pair.val.secret_key)
            /\ r.pair = Pair_new_shared_secret(r.theirs, x_only_public_key(r.ours))
            /\ secret_bytes(Get(r.pair.val.secret_key)) = SubSeq(odd, 1, KEY_SIZE)

(* a secret was shared by two parties with different keys, the public point
   of ours with an even y and that of theirs with an odd y *)
C21_Witness ==
    /\ shared # None
    /\ Get(shared).pair.ok
    /\ 2 * Get(shared).ours.d < Order
    /\ 2 * Get(shared).theirs.d > Order
    /\ XOf(Get(shared).ours.d) # XOf(Get(shared).theirs.d)

(* C22: encrypt256 returns, for every key, iv and message, a ciphertext of
   whole blocks, at least one, that is longer than the message, and
   decrypt256 of it under the same key and iv returns the message. *)
C22_EncryptRoundTrip ==
    /\ sealed # None =>
          /\ Len(Get(sealed).out) > 0
          /\ Len(Get(sealed).out) % BLOCK_SIZE = 0
          /\ Len(Get(sealed).out) > Len(Get(sealed).msg)
          /\ decrypt256(Get(sealed).key, Get(sealed).iv, Get(sealed).out)
                = Ok(Get(sealed).msg)
    /\ (op = "decrypt" /\ Get(opened).ciphertext = Get(sealed).out) =>
          Get(opened).result = Ok(Get(sealed).msg)

(* a message of whole blocks whose last bytes look like a padding was
   encrypted under a shared secret and decrypted to itself *)
C22_Witness ==
    /\ op = "decrypt"
    /\ shared # None
    /\ Get(opened).ciphertext = Get(sealed).out
    /\ Len(Get(sealed).msg) = BLOCK_SIZE * MaxBlocks
    /\ Get(sealed).msg[1] = BLOCK_SIZE
    /\ Get(opened).result = Ok(Get(sealed).msg)

----------------------------------------------------------------------------
(* Claims on the JSON text of messages and requests (specification
   SpecMsg) *)

(* the topic of a variant as the protocol spells it *)
TopicOf(variant) ==
    IF variant = "Event" THEN <<69, 86, 69, 78, 84>>
    ELSE IF variant = "Request" THEN <<82, 69, 81>>
    ELSE IF variant = "Close" THEN <<67, 76, 79, 83, 69>>
    ELSE <<78, 79, 84, 73, 67, 69>>

(* a text with its letters a..z in upper case *)
UpperAscii(str) == [i \in 1..Len(str) |-> IF str[i] \in 97..122 THEN str[i] - 32 ELSE str[i]]

(* C23: the text to_string writes of a MessageRequest or a MessageResponse
   is an array whose first element is the topic of the variant in upper
   case, from_str reads that text as the message it was written of, and it
   does so too when the topic stands there in lower or mixed case. *)
C23_MessageRoundTrip ==
    (sent # None /\ Get(sent).enum # "Request") =>
        /\ Get(sent).how = "to_string" =>
              SubSeq(Get(json), 1, Len(TopicOf(Get(sent).val.variant)) + 4)
                  = <<91, 34>> \o TopicOf(Get(sent).val.variant) \o <<34, 44>>
        /\ (op = "from_str" /\ Get(sent).how = "to_string") =>
              Get(parsed) = Ok(Get(sent).val)
        /\ (op = "from_str" /\ Get(sent).how = "receive"
                /\ UpperAscii(Get(sent).topic) = TopicOf(Get(sent).val.variant)) =>
              Get(parsed) = Ok(Get(sent).val)

(* the REQ message of the tests arrived under the topic "req" and was read
   as the message it was written of *)
C23_Witness ==
    /\ op = "from_str"
    /\ sent # None
    /\ Get(sent).enum = "MessageRequest"
    /\ Get(sent).how = "receive"
    /\ Get(sent).topic = <<114, 101, 113>>
    /\ Get(sent).val.variant = "Request"
    /\ Get(sent).val.request = Some(SimpleRequest)
    /\ Get(parsed) = Ok(Get(sent).val)

(* the fields of a request that are not empty and not zero, and limit *)
KeptFields(r) ==
    {n \in 1..8 : \/ n = 1 /\ r.ids # <<>>
                  \/ n = 2 /\ r.authors # <<>>
                  \/ n = 3 /\ r.kinds # <<>>
                  \/ n = 4 /\ r.e # <<>>
                  \/ n = 5 /\ r.p # <<>>
                  \/ n = 6 /\ r.since # 0
                  \/ n = 7 /\ r.until # 0
                  \/ n = 8}

(* a request with the fields in omitted empty or zero *)
Defaulted(r, omitted) ==
    [ids |-> IF 1 \in omitted THEN <<>> ELSE r.ids,
     authors |-> IF 2 \in omitted THEN <<>> ELSE r.authors,
     kinds |-> IF 3 \in omitted THEN <<>> ELSE r.kinds,
     e |-> IF 4 \in omitted THEN <<>> ELSE r.e,
     p |-> IF 5 \in omitted THEN <<>> ELSE r.p,
     since |-> IF 6 \in omitted THEN 0 ELSE r.since,
     until |-> IF 7 \in omitted THEN 0 ELSE r.until,
     limit |-> r.limit]

(* C24: the text to_string writes of a Request holds, in the order of the
   struct, a member for each list that is not empty, for since and until
   when they are not 0, and for limit always; the all-empty request is
   written as {"limit":0}; from_str reads the text as the request it was
   written of; and a text that leaves out fields other than limit reads as
   the request with those fields empty or 0. *)
C24_RequestRoundTrip ==
    (sent # None /\ Get(sent).enum = "Request") =>
        /\ Get(sent).how = "to_string" =>
              /\ MemberNames(Get(json))
                     = [k \in 1..Cardinality(KeptFields(Get(sent).val)) |->
                          RequestFields[CHOOSE n \in KeptFields(Get(sent).val) :
                              Cardinality({m \in KeptFields(Get(sent).val) : m < n}) = k - 1]]
              /\ Get(sent).val = EmptyRequest =>
                    Get(json) = <<123, 34, 108, 105, 109, 105, 116, 34, 58, 48, 125>>
        /\ (op = "from_str" /\ Get(sent).how = "to_string") =>
              Get(parsed) = Ok(Get(sent).val)
        /\ (op = "from_str" /\ Get(sent).how = "receive" /\ 8 \notin Get(sent).omitted) =>
              Get(parsed) = Ok(Defaulted(Get(sent).val, Get(sent).omitted))

(* a request with ids and until set, no authors, since 0 and limit 0 was
   written without authors and since, with limit, and read back as it was *)
C24_Witness ==
    /\ op = "from_str"
    /\ sent # None
    /\ Get(sent).enum = "Request"
    /\ Get(sent).how = "to_string"
    /\ Get(sent).val.ids # <<>>
    /\ Get(sent).val.authors = <<>>
    /\ Get(sent).val.since = 0
    /\ Get(sent).val.until = 1
    /\ Get(sent).val.limit = 0
    /\ MemberNames(Get(json)) = <<RequestFields[1], RequestFields[7], RequestFields[8]>>
    /\ Get(parsed) = Ok(Get(sent).val)

----------------------------------------------------------------------------
(* Further claims on the life of an event (specification Spec) *)

(* the hash of the fields of e is its id *)
HashMatches(e) == Hash_to_string(Event_hash(e)) = e.id

(* C25: verify compares the hashes before anything else: an event whose
   recomputed hash is not its id is refused with HashMismatch, whatever
   sig and pubkey are, and every other error is returned only for an event
   whose id is the recomputed hash. *)
C25_HashCheckFirst ==
    op = "verify" =>
        /\ ~HashMatches(Get(event)) => Get(outcome) = Err("HashMismatch", "")
        /\ (~Get(outcome).ok /\ Get(outcome).err # "HashMismatch") => HashMatches(Get(event))

(* an event whose id is no hash, whose sig is no signature and whose pubkey
   is no public key was refused with HashMismatch *)
C25_Witness ==
    /\ op = "verify"
    /\ ~HashMatches(Get(event))
    /\ ~Signature_from_str(Get(event).sig).ok
    /\ ~PublicKey_from_str(Get(event).pubkey).ok
    /\ Get(outcome) = Err("HashMismatch", "")

(* the hash of an event that differs from the signed one in id and sig
   only is the hash of the signed one, and an event with another id only
   is refused with HashMismatch *)
HashIgnoresIdAndSig ==
    /\ (IsSome(event) /\ IsSome(signed)
            /\ DiffFields(Get(signed), Get(event)) \subseteq {"id", "sig"}) =>
          Event_hash(Get(event)) = Event_hash(Get(signed))
    /\ (op = "verify" /\ IsSome(signed) /\ DiffFields(Get(signed), Get(event)) = {"id"}) =>
          Get(outcome) = Err("HashMismatch", "")

(* an event Event::new returned was verified with another sig and nothing
   else changed *)
OnlySigChanged ==
    op = "verify" /\ IsSome(signed) /\ DiffFields(Get(signed), Get(event)) = {"sig"}

(* C27 as stated: the hash depends on pubkey, created_at, kind, tags and
   content only; an event with another sig only fails verify with a
   signature or verification error; one with another id only fails with
   HashMismatch. *)
C27_OtherSigAlwaysFails ==
    /\ HashIgnoresIdAndSig
    /\ OnlySigChanged => Get(outcome).err \in {"Signature", "Verification"}

(* C27, amended: the hash depends on pubkey, created_at, kind, tags and
   content only; an event with another sig only is never refused with
   HashMismatch: verify succeeds when the new sig is a signature of the id
   under the pubkey too, and fails with a signature or verification error
   otherwise; an event with another id only is refused with HashMismatch. *)
C27_HashIgnoresIdAndSig ==
    /\ HashIgnoresIdAndSig
    /\ OnlySigChanged =>
          IF /\ Signature_from_str(Get(event).sig).ok
             /\ verify_schnorr(Signature_from_str(Get(event).sig).val,
                               Event_hash(Get(event)), pair.public_key)
          THEN Get(outcome) = Ok(Unit)
          ELSE Get(outcome).err \in {"Signature", "Verification"}

(* the sig of a signed event was replaced by another signature of the same
   pair for the same id, and verify succeeded *)
C27_Witness ==
    /\ OnlySigChanged
    /\ Get(event).id = Get(signed).id
    /\ Get(outcome) = Ok(Unit)

(* C29: Event::new returns no event with an empty id or an empty sig: with
   a pair that holds a secret key the event returned has the 64 hex digits
   of an id and the 128 of a sig, and with a pair that holds none the call
   aborts and no event comes into being. *)
C29_NeverUnsigned ==
    /\ op = "new" =>
          /\ IsSome(pair.secret_key)
          /\ Len(Get(event).id) = 2 * MESSAGE_SIZE
          /\ Len(Get(event).sig) = 2 * SCHNORR_SIGNATURE_SIZE
    /\ IsSome(signed) => (Get(signed).id # <<>> /\ Get(signed).sig # <<>>)
    /\ ~IsSome(pair.secret_key) => (signed = None /\ op # "new")
    /\ op = "new_panicked" => (~IsSome(pair.secret_key) /\ event = None)

(* Event::new was called with a pair made of a public key alone and
   aborted *)
C29_Witness ==
    /\ op = "new_panicked"
    /\ ~IsSome(pair.secret_key)
    /\ event = None
    /\ signed = None

(* C30: verify never returns the Hex error: an id that is the recomputed
   hash is 64 lower-case hex digits, it decodes to the 32 bytes of a
   message, and what verify returns for such an event is Ok, the Signature
   error of a sig that does not parse, or the Verification error of a
   pubkey that does not parse or of a signature that is not valid. *)
C30_NoHexError ==
    op = "verify" =>
        /\ Get(outcome).err # "Hex"
        /\ HashMatches(Get(event)) =>
              /\ Len(Get(event).id) = 2 * MESSAGE_SIZE
              /\ \A i \in 1..Len(Get(event).id) : Get(event).id[i] \in Range(HexDigits)
              /\ from_hex(Get(event).id).ok
              /\ Message_from_slice(from_hex(Get(event).id).val).ok
              /\ \/ Get(outcome) = Ok(Unit)
                 \/ /\ Get(outcome).err = "Signature"
                    /\ ~Signature_from_str(Get(event).sig).ok
                 \/ /\ Get(outcome).err = "Verification"
                    /\ Signature_from_str(Get(event).sig).ok
                    /\ \/ ~PublicKey_from_str(Get(event).pubkey).ok
                       \/ ~verify_schnorr(Signature_from_str(Get(event).sig).val,
                                          Event_hash(Get(event)),
                                          PublicKey_from_str(Get(event).pubkey).val)

(* an event whose id is the hash of its fields and whose pubkey is no
   public key passed the hash comparison and the parsing of id, and was
   refused with Verification *)
C30_Witness ==
    /\ op = "verify"
    /\ HashMatches(Get(event))
    /\ ~PublicKey_from_str(Get(event).pubkey).ok
    /\ Get(outcome).err = "Verification"

----------------------------------------------------------------------------
(* Further claims on the NIP-19 codec (specification SpecCodec) *)

(* some entry of the payload, taken entry by entry, has the length byte 0 *)
RECURSIVE HasEmptyEntry(_)
HasEmptyEntry(bytes) ==
    IF Len(bytes) < 2 THEN FALSE
    ELSE IF bytes[2] = 0 THEN TRUE
    ELSE HasEmptyEntry(Drop(bytes, 2 + bytes[2]))

(* C26: an entry whose length byte is 0 is read as an empty value and the
   decoding goes on behind it: a payload of complete valid entries, one of
   them empty, decodes to the record of all its relay entries, and a record
   with an empty string among its relays (and, for a Profile, a public key)
   reads back with the relays it was written with. *)
C26_EmptyValueAccepted ==
    \A kind \in {"nprofile", "nevent"} :
        /\ (/\ ReadPayload(kind)
            /\ Leftover(Get(payload), kind) = <<>>
            /\ HasEmptyEntry(Get(payload)))
              => /\ Get(decoded).result.ok
                 /\ Get(decoded).result.val.relays = RelayValues(Get(payload))
        /\ (/\ ReadBack(kind)
            /\ kind = "nprofile" => IsSome(Get(record).value.public_key)
            /\ \E i \in 1..Len(Get(record).value.relays) : Get(record).value.relays[i] = <<>>)
              => /\ Get(decoded).result.ok
                 /\ Get(decoded).result.val.relays = Get(record).value.relays

(* the values of the special entries of a payload, entry by entry, in the
   order of the buffer *)
RECURSIVE SpecialValues(_)
SpecialValues(bytes) ==
    IF Len(bytes) < 2 THEN <<>>
    ELSE LET value == Take(Drop(bytes, 2), bytes[2])
             rest == SpecialValues(Drop(bytes, 2 + bytes[2]))
         IN  IF Head(bytes) = SPECIAL_TYPE THEN <<value>> \o rest ELSE rest

(* the value of the last special entry of a payload that has one *)
LastSpecial(bytes) == SpecialValues(bytes)[Len(SpecialValues(bytes))]

(* C28: a payload of complete valid entries decodes whatever their order
   and number: the relays are those of the relay entries, before or behind
   a special entry; without a special entry the id of an nevent is the
   empty string and the public key of an nprofile is None; with several
   special entries the last one gives the id or the public key. *)
C28_AnyOrderAnyMultiplicity ==
    \A kind \in {"nprofile", "nevent"} :
        (ReadPayload(kind) /\ Leftover(Get(payload), kind) = <<>>)
            => /\ Get(decoded).result.ok
               /\ Get(decoded).result.val.relays = RelayValues(Get(payload))
               /\ kind = "nevent" =>
                     Get(decoded).result.val.id
                         = IF SpecialValues(Get(payload)) = <<>> THEN <<>>
                           ELSE from_utf8(LastSpecial(Get(payload))).val
               /\ kind = "nprofile" =>
                     Get(decoded).result.val.public_key
                         = IF SpecialValues(Get(payload)) = <<>> THEN None
                           ELSE Some(PublicKey_try_from(LastSpecial(Get(payload))).val)

====
